---- MODULE Spec2Model ----
(***************************************************************************)
(* Model of the SQLite-AI quickstart services:                             *)
(*   services/ai.py    AIClient   (load_model, complete)                   *)
(*   services/chat.py  ChatService (setup_schema, chat, get_history,       *)
(*                                  clear_history, get_message_stats)      *)
(*   services/db.py    DatabaseManager (one sqlite3 connection)            *)
(*                                                                         *)
(* Spec is the chat service with its AI client; SpecAI is the AI client     *)
(* used on its own, with more model files and prompts.                     *)
(*                                                                         *)
(* The sqlite3 connection is used with Python's default transaction        *)
(* control: an INSERT or DELETE opens a transaction that stays open until  *)
(* commit() or a rollback.  The connection reads its own uncommitted       *)
(* rows, so the model keeps the rows the connection sees (chat_history)    *)
(* apart from the rows that are durable in the file (disk).                *)
(***************************************************************************)
EXTENDS Integers, Sequences, FiniteSets, TLC

\* ---------------------------------------------------------------- bounds
MaxId == 3        \* largest AUTOINCREMENT id handed out in a run
MaxLimit == 2     \* largest LIMIT passed to get_history
MaxLen == 4       \* longest line typed at the prompt of the interactive shell

\* ------------------------------------------------------------ input sets
None == "None"                                   \* Python's None / SQL NULL
Sessions == {"session-a", "session-b"}
Messages == {"Hello"}
ExistingPaths == {"model1.gguf", "model2.gguf"}  \* files os.path.exists finds
MissingPaths == {"/nonexistent/model.gguf"}
ModelPaths == ExistingPaths \cup MissingPaths
ChatModelPaths == {"model1.gguf"} \cup MissingPaths  \* paths loaded around chat turns
Prompts == {"Hello", "What is Python?", "Tell me a joke"}
Limits == (0 - 1) .. MaxLimit

\* Python truthiness of a text or None
Truthy(v) == v # None /\ v # ""

\* Outcomes of the extension call SELECT llm_model_load(?)
LoadOutcomes ==
    { [kind |-> "ok", val |-> None],
      [kind |-> "raise", val |-> "Model loading failed"] }

\* Outcomes of SELECT llm_text_generate(?) followed by fetchone():
\* a row with a value (text, empty text or NULL), no row, or an exception.
GenOutcomes ==
    { [kind |-> "row", val |-> "Hi there!"],
      [kind |-> "row", val |-> ""],
      [kind |-> "row", val |-> None],
      [kind |-> "norow", val |-> None],
      [kind |-> "raise", val |-> "AI generation failed"] }

\* The outcomes a chat turn is run with: generated text or an exception
ChatGenOutcomes == { e \in GenOutcomes : Truthy(e.val) }

\* Outcome of one statement on the connection: it succeeds, it raises and
\* leaves the open transaction as it was, or it raises and SQLite rolls the
\* whole open transaction back (SQLITE_FULL, SQLITE_IOERR, ...).
Failures == {"error", "rollback"}

\* Outcomes of a run of n statements that stops at the first failure.
RunOutcomes(n) ==
    { o \in UNION { [1..k -> {"ok"} \cup Failures] : k \in 1..n } :
        /\ \A i \in 1..(Len(o) - 1) : o[i] = "ok"
        /\ (Len(o) < n => o[Len(o)] \in Failures) }

Run1 == RunOutcomes(1)     \* one statement
Run2 == RunOutcomes(2)     \* a statement, then commit (or a second statement)
Run3 == RunOutcomes(3)     \* two statements, then commit

AllOk(o, n) == Len(o) = n /\ \A i \in 1..n : o[i] = "ok"

VARIABLES
    current_model_path,   \* AIClient.current_model_path
    db,                   \* the sqlite3 connection and the database file
    has_db,               \* ChatService.db is set (truthy)
    loaded,               \* path given to the most recent load_model that returned True
    last,                 \* the most recent call: its arguments and what it returned
    stored_turns,         \* history: per session, the turns chat stored
                          \* in full, or Cleared once it was cleared
    tutorial_db,          \* the database file ./data/tutorial.db
    clients,              \* the SyncClient of each device
    cli_client            \* the module-level `client` of the sync CLI

chat_vars == <<current_model_path, db, has_db, loaded, stored_turns>>
sync_vars == <<tutorial_db, clients, cli_client>>
vars == <<current_model_path, db, has_db, loaded, last, stored_turns,
          tutorial_db, clients, cli_client>>

\* ------------------------------------------------------------- AIClient

SentinelNoModel == "No model loaded. Please load a model first."
SentinelEmpty == "Sorry, I couldn't generate a response."
ErrorPrefix == "Error generating response: "

Call(fn, arg) == [fn |-> fn, arg |-> arg]

Exists(path) == path \in ExistingPaths

\* load_model without the os.path.exists test
LoadModelNoExistsCheck(cur, model_path, ext) ==
    IF ext.kind = "ok"
    THEN [ret |-> TRUE, raised |-> FALSE, current_model_path |-> model_path,
          calls |-> <<Call("llm_model_load", model_path)>>]
    ELSE [ret |-> FALSE, raised |-> FALSE, current_model_path |-> cur,
          calls |-> <<Call("llm_model_load", model_path)>>]

\* load_model that assigns current_model_path before the extension call
LoadModelAssignFirst(cur, model_path, ext) ==
    IF ~Exists(model_path)
    THEN [ret |-> FALSE, raised |-> FALSE, current_model_path |-> cur,
          calls |-> <<>>]
    ELSE [ret |-> ext.kind = "ok", raised |-> FALSE,
          current_model_path |-> model_path,
          calls |-> <<Call("llm_model_load", model_path)>>]

\* load_model that keeps the path of the first model it loaded
LoadModelKeepFirst(cur, model_path, ext) ==
    IF ~Exists(model_path)
    THEN [ret |-> FALSE, raised |-> FALSE, current_model_path |-> cur,
          calls |-> <<>>]
    ELSE IF ext.kind = "ok"
         THEN [ret |-> TRUE, raised |-> FALSE,
               current_model_path |-> IF cur = None THEN model_path ELSE cur,
               calls |-> <<Call("llm_model_load", model_path)>>]
         ELSE [ret |-> FALSE, raised |-> FALSE, current_model_path |-> cur,
               calls |-> <<Call("llm_model_load", model_path)>>]

\* AIClient.load_model: result, new current_model_path, extension calls made
LoadModel(cur, model_path, ext) ==
    IF ~Exists(model_path)
    THEN [ret |-> FALSE, raised |-> FALSE, current_model_path |-> cur,
          calls |-> <<>>]
    ELSE IF ext.kind = "ok"
         THEN [ret |-> TRUE, raised |-> FALSE, current_model_path |-> model_path,
               calls |-> <<Call("llm_model_load", model_path)>>]
         ELSE [ret |-> FALSE, raised |-> FALSE, current_model_path |-> cur,
               calls |-> <<Call("llm_model_load", model_path)>>]

\* complete without the "no model loaded" test
CompleteNoGuard(cur, message, ext) ==
    [ret |-> CASE ext.kind = "raise" -> ErrorPrefix \o ext.val
               [] ext.kind = "norow" -> SentinelEmpty
               [] OTHER -> IF Truthy(ext.val) THEN ext.val ELSE SentinelEmpty,
     raised |-> FALSE,
     calls |-> <<Call("llm_text_generate", message)>>]

\* complete that returns result[0] of any fetched row, empty or not
CompleteRaw(cur, message, ext) ==
    IF ~Truthy(cur)
    THEN [ret |-> SentinelNoModel, raised |-> FALSE, calls |-> <<>>]
    ELSE [ret |-> CASE ext.kind = "raise" -> ErrorPrefix \o ext.val
                    [] ext.kind = "norow" -> SentinelEmpty
                    [] OTHER -> ext.val,
          raised |-> FALSE,
          calls |-> <<Call("llm_text_generate", message)>>]

\* AIClient.complete: returned text, extension calls made
Complete(cur, message, ext) ==
    IF ~Truthy(cur)
    THEN [ret |-> SentinelNoModel, raised |-> FALSE, calls |-> <<>>]
    ELSE [ret |-> CASE ext.kind = "raise" -> ErrorPrefix \o ext.val
                    [] ext.kind = "norow" -> SentinelEmpty
                    [] OTHER -> IF Truthy(ext.val) THEN ext.val ELSE SentinelEmpty,
          raised |-> FALSE,
          calls |-> <<Call("llm_text_generate", message)>>]

\* ------------------------------------------- sqlite3 connection (db.py)

Row(id, role, message, model_used, session_id) ==
    [id |-> id, role |-> role, message |-> message,
     model_used |-> model_used, session_id |-> session_id]

EmptyFile == [chat_history |-> <<>>, seq |-> 0]

\* DatabaseManager.__init__: a connection to a new file, no table yet
NewDb == [table |-> FALSE, chat_history |-> <<>>, seq |-> 0, disk |-> EmptyFile]

\* INSERT INTO chat_history (role, message, model_used, session_id):
\* id INTEGER PRIMARY KEY AUTOINCREMENT takes the next sequence value
Insert(d, role, message, model_used, session_id) ==
    [d EXCEPT !.chat_history =
                  Append(@, Row(d.seq + 1, role, message, model_used, session_id)),
              !.seq = @ + 1]

\* connection.commit(): the open transaction becomes durable
Commit(d) == [d EXCEPT !.disk = [chat_history |-> d.chat_history, seq |-> d.seq]]

\* rollback of the open transaction: the connection sees the file again
Rollback(d) == [d EXCEPT !.chat_history = d.disk.chat_history, !.seq = d.disk.seq]

\* one statement with outcome o whose effect, when it succeeds, is e
Exec(d, o, e) ==
    CASE o = "ok" -> e
      [] o = "error" -> d
      [] o = "rollback" -> Rollback(d)

\* a statement on chat_history fails when the table was never created
Runnable(d, o) == d.table \/ o = <<"error">>

\* --------------------------------------------------- ChatService (chat.py)

RECURSIVE Reverse(_)
Reverse(s) == IF s = <<>> THEN <<>> ELSE Append(Reverse(Tail(s)), Head(s))

Min(a, b) == IF a < b THEN a ELSE b

OfSession(rows, session_id) ==
    SelectSeq(rows, LAMBDA r : r.session_id = session_id)

\* setup_schema that creates the table anew: DROP TABLE, CREATE TABLE
SetupSchemaAnew(d, o) ==
    LET d1 == Exec(d, o[1], [d EXCEPT !.table = TRUE, !.chat_history = <<>>])
    IN  IF Len(o) >= 2 THEN Exec(d1, o[2], Commit(d1)) ELSE d1

\* ChatService.setup_schema: CREATE TABLE IF NOT EXISTS, then commit
SetupSchema(d, o) ==
    LET d1 == Exec(d, o[1], [d EXCEPT !.table = TRUE])
    IN  IF Len(o) >= 2 THEN Exec(d1, o[2], Commit(d1)) ELSE d1

\* storage block whose second INSERT binds message instead of response
StoreTurnEcho(d, session_id, message, response, model_used, o) ==
    LET d1 == Exec(d, o[1], Insert(d, "user", message, model_used, session_id))
        d2 == IF Len(o) >= 2
              THEN Exec(d1, o[2],
                        Insert(d1, "assistant", message, model_used, session_id))
              ELSE d1
    IN  IF Len(o) >= 3 THEN Exec(d2, o[3], Commit(d2)) ELSE d2

\* storage block that leaves the two rows uncommitted
StoreTurnNoCommit(d, session_id, message, response, model_used, o) ==
    LET d1 == Exec(d, o[1], Insert(d, "user", message, model_used, session_id))
        d2 == IF Len(o) >= 2
              THEN Exec(d1, o[2],
                        Insert(d1, "assistant", response, model_used, session_id))
              ELSE d1
    IN  IF Len(o) >= 3 THEN Exec(d2, o[3], d2) ELSE d2

\* self.ai.complete replaced by a callable that raises (AIClient.complete
\* itself catches whatever the extension raises)
PatchedOutcomes == { [kind |-> "complete_raises", val |-> "AI failed"] }

\* chat whose except clause keeps str(e) alone
ChatResponseBare(cur, message, ext) ==
    IF ext.kind = "complete_raises"
    THEN [response |-> ext.val, calls |-> <<>>]
    ELSE LET c == Complete(cur, message, ext)
         IN  [response |-> c.ret, calls |-> c.calls]

\* the first block of ChatService.chat: response = self.ai.complete(message),
\* or "Error generating response: <str(e)>" when that call raises
ChatResponse(cur, message, ext) ==
    IF ext.kind = "complete_raises"
    THEN [response |-> ErrorPrefix \o ext.val, calls |-> <<>>]
    ELSE LET c == Complete(cur, message, ext)
         IN  [response |-> c.ret, calls |-> c.calls]

\* the storage block of ChatService.chat: two INSERTs, then commit; o gives
\* the outcome of each statement reached, the block ends at the first failure
StoreTurn(d, session_id, message, response, model_used, o) ==
    LET d1 == Exec(d, o[1], Insert(d, "user", message, model_used, session_id))
        d2 == IF Len(o) >= 2
              THEN Exec(d1, o[2],
                        Insert(d1, "assistant", response, model_used, session_id))
              ELSE d1
    IN  IF Len(o) >= 3 THEN Exec(d2, o[3], Commit(d2)) ELSE d2

\* chat without the except clause around the storage block
ChatResultNoCatch(response, stored) ==
    [ret |-> IF stored THEN response ELSE None, raised |-> ~stored]

\* what ChatService.chat hands back once the storage block has run
\* (stored: every statement of the block succeeded)
ChatResult(response, stored) == [ret |-> response, raised |-> FALSE]

\* the history query with ORDER BY id ASC
SelectHistoryAsc(rows, session_id, limit) ==
    LET asc == OfSession(rows, session_id)
    IN  IF limit < 0 THEN asc ELSE SubSeq(asc, 1, Min(limit, Len(asc)))

\* SELECT role, message, created_at ... WHERE session_id = ?
\* ORDER BY id DESC LIMIT ?   (a negative LIMIT is no limit in SQLite)
SelectHistory(rows, session_id, limit) ==
    LET desc == Reverse(OfSession(rows, session_id))
    IN  IF limit < 0 THEN desc ELSE SubSeq(desc, 1, Min(limit, Len(desc)))

\* dict(msg) of a fetched row: the selected columns (created_at left out)
Dict(r) == [role |-> r.role, message |-> r.message]

\* a DELETE that also filters on role = 'user'
DeleteUserRows(d, session_id) ==
    [d EXCEPT !.chat_history =
         SelectSeq(@, LAMBDA r : ~(r.session_id = session_id /\ r.role = "user"))]

\* DELETE FROM chat_history WHERE session_id = ?
Delete(d, session_id) ==
    [d EXCEPT !.chat_history = SelectSeq(@, LAMBDA r : r.session_id # session_id)]

\* cursor.rowcount of that DELETE
RowCount(d, session_id) == Len(OfSession(d.chat_history, session_id))

\* SELECT COUNT(*) ... WHERE session_id = ?
CountAll(rows, session_id) == Len(OfSession(rows, session_id))

\* SELECT COUNT(*) ... WHERE session_id = ? AND role = 'user'
CountUser(rows, session_id) ==
    Len(SelectSeq(rows, LAMBDA r : r.session_id = session_id /\ r.role = "user"))

\* ----------------------------------------------------- SyncClient (sync.py)

Devices == {"device-a", "device-b"}
Titles == {"Learn SQLite-Sync"}

\* ids the extension's cloudsync_uuid() hands out, ids uuid.uuid4() hands
\* out, and the id of a todo another device pushed to the cloud
ExtIds == {"018f3a5c-7e21-7b44-9c0d-5a1e2f3b4c5d"}
FallbackIds == {"9b1deb4d-3b7d-4bad-9bdd-2b0d7b3dcb6d",
                "1c6f0a52-84e3-4f0b-a7d9-6e2b5c1d0f33"}
RemoteIds == {"4e8d2c10-55aa-4c3e-8f71-0b9a7d6e5c4f"}
TodoIds == ExtIds \cup FallbackIds \cup RemoteIds
UnknownId == "00000000-0000-4000-8000-000000000000"

\* how a call into the extension ends: it returns, it raises
\* sqlite3.OperationalError, or it raises an exception of another class
ExtOutcomes == {"ok", "OperationalError", "Other"}

\* the names _load_extension tries in turn
Candidates == <<"./cloudsync.so", "./cloudsync.dylib", "./cloudsync.dll", "cloudsync">>

\* outcomes of the load_extension calls of one _load_extension: the loop
\* goes on after an OperationalError and ends at anything else
LoadRuns ==
    { o \in UNION { [1..k -> ExtOutcomes] : k \in 1..Len(Candidates) } :
        /\ \A i \in 1..(Len(o) - 1) : o[i] = "OperationalError"
        /\ (Len(o) < Len(Candidates) => o[Len(o)] # "OperationalError") }

\* ./data/tutorial.db before any client was constructed
NoFile == [table |-> FALSE, todos |-> {}]

\* a device whose SyncClient was not constructed yet
NoClient == [phase |-> "absent", sync_enabled |-> FALSE, tx |-> FALSE, view |-> {}]

\* a row as INSERT INTO todos (id, title, device) stores it
\* (completed INTEGER DEFAULT 0)
Todo(id, title, device) ==
    [id |-> id, title |-> title, completed |-> 0, device |-> device]

\* todos pulled from the cloud by a sync
Incoming == {{}, {Todo("4e8d2c10-55aa-4c3e-8f71-0b9a7d6e5c4f", "Build an app", "device-c")}}

Ids(rows) == {r.id : r \in rows}

\* the connection of a client: what it sees of todos, what the file holds,
\* and whether it has a write transaction open
InsertTodo(k, row) == [k EXCEPT !.todos = @ \cup {row}, !.tx = TRUE]

\* UPDATE todos SET completed = 1 - completed WHERE id = ?
UpdateToggled(k, todo_id) ==
    [k EXCEPT !.todos = {IF r.id = todo_id THEN [r EXCEPT !.completed = 1 - @] ELSE r :
                            r \in @},
              !.tx = TRUE]

\* UPDATE todos SET completed = 1 WHERE id = ?
UpdateCompleted(k, todo_id) ==
    [k EXCEPT !.todos = {IF r.id = todo_id THEN [r EXCEPT !.completed = 1] ELSE r :
                            r \in @},
              !.tx = TRUE]

CommitTodos(k) == [k EXCEPT !.disk = k.todos, !.tx = FALSE]

RollbackTodos(k) == [k EXCEPT !.todos = k.disk, !.tx = FALSE]

\* an INSERT or UPDATE with outcome o and effect e: the statement takes the
\* write lock first (database is locked when another connection holds it)
\* and a statement that fails afterwards leaves the transaction open
WriteStmt(k, o, e, locked) ==
    CASE locked -> k
      [] o = "ok" -> e
      [] o = "error" -> [k EXCEPT !.tx = TRUE]
      [] o = "rollback" -> RollbackTodos(k)

CommitStmt(k, o) ==
    CASE o = "ok" -> CommitTodos(k)
      [] o = "error" -> k
      [] o = "rollback" -> RollbackTodos(k)

ReadStmt(k, o) == IF o = "rollback" THEN RollbackTodos(k) ELSE k

\* SyncClient.__init__: _connect, _load_extension, _setup_schema.
\* conn: sqlite3.connect; loads: the load_extension calls; o: CREATE TABLE
\* IF NOT EXISTS and commit; init: SELECT cloudsync_init('todos')
Construct(table, conn, loads, o, init) ==
    LET load_end == loads[Len(loads)]
        schema == conn = "ok" /\ load_end # "Other"
        inits == schema /\ AllOk(o, 2)
    IN  [exited |-> conn # "ok",
         raised |-> conn = "ok" /\ (load_end = "Other" \/ ~AllOk(o, 2) \/ init = "Other"),
         constructed |-> inits /\ init # "Other",
         table |-> table \/ (schema /\ o[1] = "ok"),
         sync_enabled |-> inits /\ init = "ok",
         calls |-> (IF conn = "ok"
                    THEN [i \in 1..Len(loads) |-> "load_extension"] ELSE <<>>)
                   \o (IF inits THEN <<"cloudsync_init">> ELSE <<>>)]

\* setup_cloud without its try / except
SetupCloudNoCatch(cl, e1, e2) ==
    IF ~cl.sync_enabled
    THEN [ret |-> FALSE, raised |-> FALSE, calls |-> <<>>, echo |-> "Sync not available"]
    ELSE IF e1 # "ok"
    THEN [ret |-> FALSE, raised |-> TRUE, calls |-> <<"cloudsync_network_init">>,
          echo |-> None]
    ELSE [ret |-> e2 = "ok", raised |-> e2 # "ok",
          calls |-> <<"cloudsync_network_init", "cloudsync_network_set_apikey">>,
          echo |-> IF e2 = "ok" THEN "Connected to SQLite Cloud" ELSE None]

\* SyncClient.setup_cloud(connection_string, api_key)
SetupCloud(cl, e1, e2) ==
    IF ~cl.sync_enabled
    THEN [ret |-> FALSE, raised |-> FALSE, calls |-> <<>>, echo |-> "Sync not available"]
    ELSE IF e1 # "ok"
    THEN [ret |-> FALSE, raised |-> FALSE, calls |-> <<"cloudsync_network_init">>,
          echo |-> "Cloud setup failed"]
    ELSE [ret |-> e2 = "ok", raised |-> FALSE,
          calls |-> <<"cloudsync_network_init", "cloudsync_network_set_apikey">>,
          echo |-> IF e2 = "ok" THEN "Connected to SQLite Cloud"
                   ELSE "Cloud setup failed"]

\* the rows of incoming that the connection does not hold yet
NewRows(k, incoming) == {r \in incoming : r.id \notin Ids(k.todos)}

\* sync without the `if not self.sync_enabled` return
SyncUnguarded(k, cl, e, incoming) ==
    IF e # "ok"
    THEN [k |-> k, raised |-> FALSE, calls |-> <<"cloudsync_network_sync">>,
          echo |-> "Sync failed"]
    ELSE LET rows == k.todos \cup NewRows(k, incoming)
         IN  [k |-> IF k.tx THEN [k EXCEPT !.todos = rows]
                    ELSE [k EXCEPT !.todos = rows, !.disk = rows],
              raised |-> FALSE, calls |-> <<"cloudsync_network_sync">>,
              echo |-> IF NewRows(k, incoming) # {}
                       THEN "Received changes" ELSE "Sync complete - no new changes"]

\* SyncClient.sync(): one SELECT cloudsync_network_sync(); the extension
\* writes the rows it received through the client's connection (outside a
\* transaction they are committed at once)
Sync(k, cl, e, incoming) ==
    IF ~cl.sync_enabled
    THEN [k |-> k, raised |-> FALSE, calls |-> <<>>, echo |-> "Sync not enabled"]
    ELSE IF e # "ok"
    THEN [k |-> k, raised |-> FALSE, calls |-> <<"cloudsync_network_sync">>,
          echo |-> "Sync failed"]
    ELSE LET rows == k.todos \cup NewRows(k, incoming)
         IN  [k |-> IF k.tx THEN [k EXCEPT !.todos = rows]
                    ELSE [k EXCEPT !.todos = rows, !.disk = rows],
              raised |-> FALSE, calls |-> <<"cloudsync_network_sync">>,
              echo |-> IF NewRows(k, incoming) # {}
                       THEN "Received changes" ELSE "Sync complete - no new changes"]

\* _get_uuid that always uses uuid.uuid4()
GetUuidFallbackOnly(cl, eu, ext_id, fallback_id) ==
    [id |-> fallback_id,
     calls |-> IF cl.sync_enabled THEN <<"cloudsync_uuid">> ELSE <<>>]

\* SyncClient._get_uuid(): the extension's id when sync is enabled and the
\* call returns, uuid.uuid4() otherwise
GetUuid(cl, eu, ext_id, fallback_id) ==
    [id |-> IF cl.sync_enabled /\ eu = "ok" THEN ext_id ELSE fallback_id,
     calls |-> IF cl.sync_enabled THEN <<"cloudsync_uuid">> ELSE <<>>]

\* add_todo that stores the title in the device column
AddTodoNoDevice(k, cl, client_id, title, eu, ext_id, fallback_id, o, locked) ==
    LET u == GetUuid(cl, eu, ext_id, fallback_id)
        k1 == WriteStmt(k, o[1], InsertTodo(k, Todo(u.id, title, title)), locked)
        k2 == IF Len(o) >= 2 THEN CommitStmt(k1, o[2]) ELSE k1
    IN  [k |-> k2, ret |-> IF AllOk(o, 2) THEN u.id ELSE None,
         raised |-> ~AllOk(o, 2), calls |-> u.calls, todo_id |-> u.id]

\* SyncClient.add_todo(title): INSERT, then commit, none of them guarded
AddTodo(k, cl, client_id, title, eu, ext_id, fallback_id, o, locked) ==
    LET u == GetUuid(cl, eu, ext_id, fallback_id)
        k1 == WriteStmt(k, o[1], InsertTodo(k, Todo(u.id, title, client_id)), locked)
        k2 == IF Len(o) >= 2 THEN CommitStmt(k1, o[2]) ELSE k1
    IN  [k |-> k2, ret |-> IF AllOk(o, 2) THEN u.id ELSE None,
         raised |-> ~AllOk(o, 2), calls |-> u.calls, todo_id |-> u.id]

\* cursor.rowcount of the UPDATE
Matching(k, todo_id) == Cardinality({r \in k.todos : r.id = todo_id})

\* complete_todo whose UPDATE has no WHERE clause
CompleteTodoAll(k, todo_id, o, locked) ==
    LET all == [k EXCEPT !.todos = {[r EXCEPT !.completed = 1] : r \in @},
                         !.tx = TRUE]
        k1 == WriteStmt(k, o[1], all, locked)
        found == o[1] = "ok" /\ Matching(k, todo_id) > 0
        k2 == IF found THEN CommitStmt(k1, o[2]) ELSE k1
    IN  [k |-> k2, found |-> found,
         raised |-> \E i \in 1..Len(o) : o[i] # "ok",
         echo |-> IF found /\ AllOk(o, 2) THEN "Todo completed!"
                  ELSE IF o[1] = "ok" /\ ~found THEN "Todo not found" ELSE None]

\* SyncClient.complete_todo(todo_id): UPDATE, commit when a row matched
CompleteTodo(k, todo_id, o, locked) ==
    LET k1 == WriteStmt(k, o[1], UpdateCompleted(k, todo_id), locked)
        found == o[1] = "ok" /\ Matching(k, todo_id) > 0
        k2 == IF found THEN CommitStmt(k1, o[2]) ELSE k1
    IN  [k |-> k2, found |-> found,
         raised |-> \E i \in 1..Len(o) : o[i] # "ok",
         echo |-> IF found /\ AllOk(o, 2) THEN "Todo completed!"
                  ELSE IF o[1] = "ok" /\ ~found THEN "Todo not found" ELSE None]

\* SyncClient.list_todos(): the rows of the SELECT (their order, by a
\* created_at of one-second resolution, is left out), None (here the empty
\* set) when there are none
ListTodos(k, o) ==
    [k |-> ReadStmt(k, o[1]), raised |-> o[1] # "ok",
     listed |-> IF o[1] = "ok" THEN k.todos ELSE {},
     echo |-> IF o[1] = "ok" /\ k.todos = {} THEN "No todos yet" ELSE None]

\* SyncClient.show_status(): SELECT COUNT(*) FROM todos
ShowStatus(k, o) ==
    [k |-> ReadStmt(k, o[1]), raised |-> o[1] # "ok",
     count |-> IF o[1] = "ok" THEN Cardinality(k.todos) ELSE 0]

\* SyncClient.close(): cloudsync_terminate when sync is enabled, whatever it
\* raises is dropped; then the connection is closed
Close(cl, e) ==
    [client |-> [cl EXCEPT !.phase = "closed", !.tx = FALSE, !.view = {}],
     raised |-> FALSE,
     calls |-> IF cl.sync_enabled THEN <<"cloudsync_terminate">> ELSE <<>>]

\* ------------------------------------------- the interactive shell's parser

\* the characters of a typed line: letters, the space and the double quote
Quote == "\""
Space == " "
Chars == {"q", "a", Space, Quote}

\* the lines of at most MaxLen characters
Lines == UNION { [1..n -> Chars] : n \in 0..MaxLen }

\* str.strip(): the line without its leading and trailing whitespace
RECURSIVE LStrip(_)
LStrip(line) ==
    IF line # <<>> /\ Head(line) = Space THEN LStrip(Tail(line)) ELSE line

RECURSIVE RStrip(_)
RStrip(line) ==
    IF line # <<>> /\ line[Len(line)] = Space
    THEN RStrip(SubSeq(line, 1, Len(line) - 1)) ELSE line

Strip(line) == RStrip(LStrip(line))

\* the parser before the first character
TokStart == [cmd_parts |-> <<>>, current_part |-> <<>>, in_quotes |-> FALSE]

\* the loop body with the test for the space only: quotes are ordinary
\* characters
TokStepNoQuotes(st, char) ==
    IF char = Space
    THEN (IF st.current_part # <<>>
          THEN [st EXCEPT !.cmd_parts = Append(@, st.current_part),
                          !.current_part = <<>>]
          ELSE st)
    ELSE [st EXCEPT !.current_part = Append(@, char)]

\* the body of `for char in cmd_input`
TokStep(st, char) ==
    IF char = Quote /\ ~st.in_quotes THEN [st EXCEPT !.in_quotes = TRUE]
    ELSE IF char = Quote /\ st.in_quotes THEN [st EXCEPT !.in_quotes = FALSE]
    ELSE IF char = Space /\ ~st.in_quotes
    THEN (IF st.current_part # <<>>
          THEN [st EXCEPT !.cmd_parts = Append(@, st.current_part),
                          !.current_part = <<>>]
          ELSE st)
    ELSE [st EXCEPT !.current_part = Append(@, char)]

\* the loop over the characters of cmd_input
RECURSIVE TokLoop(_, _)
TokLoop(st, rest) ==
    IF rest = <<>> THEN st ELSE TokLoop(TokStep(st, Head(rest)), Tail(rest))

\* cmd_parts of the line cmd_input: the loop, then the part still open
Tokenize(cmd_input) ==
    LET st == TokLoop(TokStart, cmd_input)
    IN  IF st.current_part # <<>>
        THEN Append(st.cmd_parts, st.current_part) ELSE st.cmd_parts

\* stored_turns of a session on which clear_history was called
Cleared == 0 - 1

\* ------------------------------------------------------- the call record

NoCall ==
    [op |-> "new", session_id |-> None, message |-> None, limit |-> 0,
     model_path |-> None, ext |-> [kind |-> None, val |-> None],
     stored |-> <<>>, ret |-> None, ok |-> FALSE, raised |-> FALSE,
     response |-> None, calls |-> <<>>, cursor |-> <<>>, history |-> <<>>,
     count |-> 0, total |-> 0, user |-> 0,
     client |-> None, cmd |-> None, exit |-> 0 - 1, exited |-> FALSE,
     exts |-> <<>>, title |-> None, todo_id |-> None, found |-> FALSE,
     listed |-> {}, echo |-> None, app |-> None,
     line |-> <<>>, cmd_input |-> <<>>, cmd_parts |-> <<>>,
     caught |-> FALSE, closes |-> 0, shown |-> {}, database_path |-> None]

\* ---------------------------------------------------------------- actions

Init ==
    /\ current_model_path = None
    /\ db = NewDb
    /\ has_db \in BOOLEAN
    /\ loaded = None
    /\ last = NoCall
    /\ stored_turns = [s \in Sessions |-> 0]
    /\ tutorial_db = NoFile
    /\ clients = [c \in Devices |-> NoClient]
    /\ cli_client = None

\* AIClient.load_model(model_path)
DoLoadModel(model_path, ext) ==
    LET r == LoadModel(current_model_path, model_path, ext)
    IN  /\ current_model_path' = r.current_model_path
        /\ loaded' = IF r.ret THEN model_path ELSE loaded
        /\ last' = [NoCall EXCEPT !.op = "load_model", !.model_path = model_path,
                                  !.ext = ext, !.ok = r.ret, !.raised = r.raised,
                                  !.calls = r.calls]
        /\ UNCHANGED <<db, has_db>>
        /\ UNCHANGED sync_vars

\* AIClient.complete(message)
DoComplete(message, ext) ==
    LET r == Complete(current_model_path, message, ext)
    IN  /\ last' = [NoCall EXCEPT !.op = "complete", !.message = message,
                                  !.ext = ext, !.ret = r.ret, !.raised = r.raised,
                                  !.calls = r.calls]
        /\ UNCHANGED <<current_model_path, db, has_db, loaded>>
        /\ UNCHANGED sync_vars

\* ChatService.setup_schema()
DoSetupSchema(o) ==
    /\ has_db \/ o = <<"error">>
    /\ db' = IF has_db THEN SetupSchema(db, o) ELSE db
    /\ last' = [NoCall EXCEPT !.op = "setup_schema", !.stored = o,
                              !.raised = ~(has_db /\ AllOk(o, 2))]
    /\ UNCHANGED <<current_model_path, has_db, loaded>>
    /\ UNCHANGED sync_vars

\* ChatService.chat(session_id, message)
DoChat(session_id, message, ext, o) ==
    /\ db.seq + 2 <= MaxId
    /\ IF has_db THEN Runnable(db, o) ELSE o = <<"error">>
    /\ LET c == ChatResponse(current_model_path, message, ext)
           response == c.response
           model_used == current_model_path
           r == ChatResult(response, has_db /\ AllOk(o, 3))
       IN  /\ db' = IF has_db
                    THEN StoreTurn(db, session_id, message, response, model_used, o)
                    ELSE db
           /\ last' = [NoCall EXCEPT !.op = "chat", !.session_id = session_id,
                                     !.message = message,
                                     !.ext = IF ext \in PatchedOutcomes
                                             THEN ext ELSE NoCall.ext,
                                     !.stored = IF has_db THEN o ELSE <<>>,
                                     !.response = response, !.calls = c.calls,
                                     !.ret = r.ret, !.raised = r.raised]
    /\ UNCHANGED <<current_model_path, has_db, loaded>>
    /\ UNCHANGED sync_vars

\* ChatService.get_history(session_id, limit)
DoGetHistory(session_id, limit, o) ==
    /\ IF has_db THEN Runnable(db, o) ELSE o = <<"error">>
    /\ LET found == IF has_db /\ AllOk(o, 1)
                    THEN SelectHistory(db.chat_history, session_id, limit)
                    ELSE <<>>
       IN  /\ db' = IF has_db THEN Exec(db, o[1], db) ELSE db
           /\ last' = [NoCall EXCEPT !.op = "get_history", !.session_id = session_id,
                                     !.limit = limit,
                                     !.stored = IF has_db THEN o ELSE <<>>,
                                     !.cursor = found,
                                     !.history = [i \in 1..Len(found) |-> Dict(found[i])]]
    /\ UNCHANGED <<current_model_path, has_db, loaded>>
    /\ UNCHANGED sync_vars

\* ChatService.clear_history(session_id)
DoClearHistory(session_id, o) ==
    /\ IF has_db THEN Runnable(db, o) ELSE o = <<"error">>
    /\ LET d1 == Exec(db, o[1], Delete(db, session_id))
           deleted_count == RowCount(db, session_id)
           d2 == IF Len(o) >= 2 THEN Exec(d1, o[2], Commit(d1)) ELSE d1
       IN  /\ db' = IF has_db THEN d2 ELSE db
           /\ last' = [NoCall EXCEPT !.op = "clear_history", !.session_id = session_id,
                                     !.stored = IF has_db THEN o ELSE <<>>,
                                     !.count = IF has_db /\ AllOk(o, 2)
                                               THEN deleted_count ELSE 0]
    /\ UNCHANGED <<current_model_path, has_db, loaded>>
    /\ UNCHANGED sync_vars

\* ChatService.get_message_stats(session_id)
DoGetMessageStats(session_id, o) ==
    /\ IF has_db THEN Runnable(db, o) ELSE o = <<"error">>
    /\ LET good == has_db /\ AllOk(o, 2)
           d1 == Exec(db, o[1], db)
           d2 == IF Len(o) >= 2 THEN Exec(d1, o[2], d1) ELSE d1
       IN  /\ db' = IF has_db THEN d2 ELSE db
           /\ last' = [NoCall EXCEPT !.op = "get_message_stats",
                                     !.session_id = session_id,
                                     !.stored = IF has_db THEN o ELSE <<>>,
                                     !.total = IF good
                                               THEN CountAll(db.chat_history, session_id)
                                               ELSE 0,
                                     !.user = IF good
                                              THEN CountUser(db.chat_history, session_id)
                                              ELSE 0]
    /\ UNCHANGED <<current_model_path, has_db, loaded>>
    /\ UNCHANGED sync_vars

\* a later DatabaseManager, AIClient and ChatService on the same database
\* file, the earlier connection being closed once the new one is open
\* (sqlite3.connect raising makes DatabaseManager raise DatabaseError)
DoReopen(conn) ==
    /\ has_db
    /\ db' = IF conn = "ok" THEN Rollback(db) ELSE db
    /\ current_model_path' = IF conn = "ok" THEN None ELSE current_model_path
    /\ loaded' = IF conn = "ok" THEN None ELSE loaded
    /\ last' = [NoCall EXCEPT !.op = "reopen", !.stored = <<conn>>,
                              !.raised = (conn # "ok")]
    /\ UNCHANGED has_db
    /\ UNCHANGED sync_vars

Next ==
    \/ \E p \in ChatModelPaths, e \in LoadOutcomes :
           DoLoadModel(p, e) /\ UNCHANGED stored_turns
    \/ \E m \in Messages, e \in GenOutcomes :
           DoComplete(m, e) /\ UNCHANGED stored_turns
    \/ \E o \in Run2 : DoSetupSchema(o) /\ UNCHANGED stored_turns
    \/ \E s \in Sessions, m \in Messages, e \in ChatGenOutcomes, o \in Run3 :
           DoChat(s, m, e, o) /\ UNCHANGED stored_turns
    \/ \E s \in Sessions, l \in Limits, o \in Run1 :
           DoGetHistory(s, l, o) /\ UNCHANGED stored_turns
    \/ \E s \in Sessions, o \in Run2 :
           DoClearHistory(s, o) /\ UNCHANGED stored_turns
    \/ \E s \in Sessions, o \in Run2 :
           DoGetMessageStats(s, o) /\ UNCHANGED stored_turns

\* the chat service together with its AI client
Spec == Init /\ [][Next]_vars

\* the AI client used on its own
NextAI ==
    \/ \E p \in ModelPaths, e \in LoadOutcomes :
           DoLoadModel(p, e) /\ UNCHANGED stored_turns
    \/ \E m \in Prompts, e \in GenOutcomes :
           DoComplete(m, e) /\ UNCHANGED stored_turns

SpecAI == Init /\ [][NextAI]_vars

\* ------------------------------------------- actions of the sync quickstart

\* outcomes of the statements of a SyncClient method: each returns or raises
SyncRun1 == {<<"ok">>, <<"error">>}
SyncRun2 == {<<"ok", "ok">>, <<"ok", "error">>, <<"error">>}

MaxTodos == 2

NoExit == 0 - 1
CliCommands == {"add", "list", "complete", "sync", "status", "cloud"}

\* the sqlite3 connection of client c
Conn(c) ==
    [todos |-> IF clients[c].tx THEN clients[c].view ELSE tutorial_db.todos,
     disk |-> tutorial_db.todos, tx |-> clients[c].tx]

\* another connection holds the write lock of the file
Locked(c) == \E d \in Devices \ {c} : clients[d].tx

\* c is the client of the running CLI process: the method is called by the
\* subcommand of that name and the process ends when it returns or raises
InCli(c) == cli_client = c
Cmd(c, name) == IF InCli(c) THEN name ELSE None
ExitStatus(c, raised) == IF InCli(c) THEN (IF raised THEN 1 ELSE 0) ELSE NoExit

\* the state a method leaves: connection k, client cl (dropped with the
\* process when it was a CLI subcommand)
Store(c, k, cl) ==
    /\ tutorial_db' = [tutorial_db EXCEPT !.todos = k.disk]
    /\ clients' = [clients EXCEPT ![c] =
                      IF InCli(c) THEN NoClient
                      ELSE [cl EXCEPT !.tx = k.tx,
                                      !.view = IF k.tx THEN k.todos ELSE {}]]
    /\ cli_client' = IF InCli(c) THEN None ELSE cli_client

\* SyncClient(client_id), by the demo (cli = FALSE) or by the cli group
\* callback (cli = TRUE); an extension that did not load has no
\* cloudsync_init (no such function: OperationalError); the outcome of a
\* call that is not reached is fixed
DoConstruct(c, cli, conn, loads, o, init) ==
    /\ clients[c].phase = "absent"
    /\ cli => cli_client = None
    /\ loads[Len(loads)] # "ok" => init = "OperationalError"
    /\ conn # "ok" => (loads = <<"ok">> /\ o = <<"ok", "ok">> /\ init = "ok")
    /\ ~AllOk(o, 2) => init = "OperationalError"
    /\ loads[Len(loads)] = "Other" => o = <<"ok", "ok">>
    /\ LET r == Construct(tutorial_db.table, conn, loads, o, init)
       IN  /\ tutorial_db' = [tutorial_db EXCEPT !.table = r.table]
           /\ clients' = IF r.constructed
                         THEN [clients EXCEPT ![c] =
                                  [phase |-> "open", sync_enabled |-> r.sync_enabled,
                                   tx |-> FALSE, view |-> {}]]
                         ELSE clients
           /\ cli_client' = IF cli /\ r.constructed THEN c ELSE cli_client
           /\ last' = [NoCall EXCEPT
                          !.op = "construct", !.client = c,
                          !.cmd = IF cli THEN "cli" ELSE None,
                          !.ok = r.constructed, !.raised = r.raised,
                          !.exited = r.exited,
                          !.exit = IF r.exited \/ (cli /\ r.raised) THEN 1 ELSE NoExit,
                          !.calls = r.calls,
                          !.exts = SubSeq(loads \o <<init>>, 1, Len(r.calls)),
                          !.stored = IF conn = "ok" /\ loads[Len(loads)] # "Other"
                                     THEN o ELSE <<>>]
    /\ UNCHANGED chat_vars

\* SyncClient.setup_cloud(connection_string, api_key)
DoSetupCloud(c, e1, e2) ==
    /\ clients[c].phase = "open"
    /\ ~clients[c].sync_enabled => e1 = "ok"
    /\ (~clients[c].sync_enabled \/ e1 # "ok") => e2 = "ok"
    /\ LET r == SetupCloud(clients[c], e1, e2)
       IN  /\ Store(c, Conn(c), clients[c])
           /\ last' = [NoCall EXCEPT
                          !.op = "setup_cloud", !.client = c, !.cmd = Cmd(c, "cloud"),
                          !.ok = r.ret, !.raised = r.raised, !.calls = r.calls,
                          !.exts = SubSeq(<<e1, e2>>, 1, Len(r.calls)),
                          !.echo = r.echo, !.exit = ExitStatus(c, r.raised)]
    /\ UNCHANGED chat_vars

\* SyncClient.sync()
DoSync(c, e, incoming) ==
    /\ clients[c].phase = "open"
    /\ Cardinality(Conn(c).todos) + Cardinality(incoming) <= MaxTodos
    /\ (~clients[c].sync_enabled \/ e # "ok") => incoming = {}
    /\ ~clients[c].sync_enabled => e = "ok"
    /\ (Locked(c) /\ e = "ok") => NewRows(Conn(c), incoming) = {}
    /\ LET r == Sync(Conn(c), clients[c], e, incoming)
       IN  /\ Store(c, r.k, clients[c])
           /\ last' = [NoCall EXCEPT
                          !.op = "sync", !.client = c, !.cmd = Cmd(c, "sync"),
                          !.raised = r.raised, !.calls = r.calls,
                          !.exts = SubSeq(<<e>>, 1, Len(r.calls)),
                          !.echo = r.echo, !.exit = ExitStatus(c, r.raised)]
    /\ UNCHANGED chat_vars

\* SyncClient.add_todo(title); an id already in the table makes the INSERT
\* raise IntegrityError
DoAddTodo(c, title, eu, ext_id, fallback_id, o) ==
    /\ clients[c].phase = "open"
    /\ Cardinality(Conn(c).todos) < MaxTodos
    /\ Locked(c) => o = <<"error">>
    /\ ~clients[c].sync_enabled => eu = "ok"
    /\ LET r == AddTodo(Conn(c), clients[c], c, title, eu, ext_id, fallback_id,
                        o, Locked(c))
       IN  /\ r.todo_id \in Ids(Conn(c).todos) => o = <<"error">>
           /\ Store(c, r.k, clients[c])
           /\ last' = [NoCall EXCEPT
                          !.op = "add_todo", !.client = c, !.cmd = Cmd(c, "add"),
                          !.title = title, !.todo_id = r.todo_id, !.ret = r.ret,
                          !.stored = o, !.raised = r.raised, !.calls = r.calls,
                          !.exts = SubSeq(<<eu>>, 1, Len(r.calls)),
                          !.exit = ExitStatus(c, r.raised)]
    /\ UNCHANGED chat_vars

\* SyncClient.complete_todo(todo_id)
DoCompleteTodo(c, todo_id, o) ==
    /\ clients[c].phase = "open"
    /\ Locked(c) => o = <<"error">>
    /\ o[1] = "ok" => Len(o) = (IF Matching(Conn(c), todo_id) > 0 THEN 2 ELSE 1)
    /\ LET r == CompleteTodo(Conn(c), todo_id, o, Locked(c))
       IN  /\ Store(c, r.k, clients[c])
           /\ last' = [NoCall EXCEPT
                          !.op = "complete_todo", !.client = c,
                          !.cmd = Cmd(c, "complete"), !.todo_id = todo_id,
                          !.stored = o, !.found = r.found, !.raised = r.raised,
                          !.echo = r.echo, !.exit = ExitStatus(c, r.raised)]
    /\ UNCHANGED chat_vars

\* SyncClient.list_todos()
DoListTodos(c, o) ==
    /\ clients[c].phase = "open"
    /\ LET r == ListTodos(Conn(c), o)
       IN  /\ Store(c, r.k, clients[c])
           /\ last' = [NoCall EXCEPT
                          !.op = "list_todos", !.client = c, !.cmd = Cmd(c, "list"),
                          !.stored = o, !.listed = r.listed, !.raised = r.raised,
                          !.echo = r.echo, !.exit = ExitStatus(c, r.raised)]
    /\ UNCHANGED chat_vars

\* SyncClient.show_status()
DoShowStatus(c, o) ==
    /\ clients[c].phase = "open"
    /\ LET r == ShowStatus(Conn(c), o)
       IN  /\ Store(c, r.k, clients[c])
           /\ last' = [NoCall EXCEPT
                          !.op = "show_status", !.client = c,
                          !.cmd = Cmd(c, "status"), !.stored = o,
                          !.count = r.count, !.ok = clients[c].sync_enabled,
                          !.raised = r.raised, !.exit = ExitStatus(c, r.raised)]
    /\ UNCHANGED chat_vars

\* SyncClient.close(), which no CLI subcommand calls
DoClose(c, e) ==
    /\ clients[c].phase = "open"
    /\ ~InCli(c)
    /\ ~clients[c].sync_enabled => e = "ok"
    /\ LET r == Close(clients[c], e)
       IN  /\ clients' = [clients EXCEPT ![c] = r.client]
           /\ last' = [NoCall EXCEPT
                          !.op = "close", !.client = c, !.raised = r.raised,
                          !.calls = r.calls,
                          !.exts = SubSeq(<<e>>, 1, Len(r.calls))]
    /\ UNCHANGED <<tutorial_db, cli_client>>
    /\ UNCHANGED chat_vars

\* the subcommands of the AI CLI (cli.py) and the AIClient methods there are
AiCommands == {"chat", "history", "clear", "load", "status"}
AIClientMethods == {"load_model", "complete"}

\* the AIClient method a subcommand of the AI CLI calls
AiMethod(cmd) ==
    CASE cmd = "chat" -> "chat"
      [] cmd = "history" -> "show_history"
      [] cmd = "clear" -> "clear_history"
      [] cmd = "load" -> "load_model"
      [] cmd = "status" -> "show_status"

\* a subcommand callback of either CLI entered while the module-level
\* client is None: `if not client: click.echo(..., err=True); return`
CliNotStarted(app, cmd) ==
    /\ app = "sync" => cli_client = None
    /\ last' = [NoCall EXCEPT !.op = "subcommand", !.app = app, !.cmd = cmd,
                              !.echo = "Please start the client first",
                              !.exit = 0]
    /\ UNCHANGED sync_vars
    /\ UNCHANGED chat_vars

\* AIClient.__init__(self, database_path="./data/chatbot.db", client_id=None):
\* an argument the call leaves out is NoArg and takes its default; uuid8 is
\* str(uuid4())[:8]
DefaultDatabasePath == "./data/chatbot.db"
NoArg == "<no argument>"
AiClientIds == {"my-chatbot", "ai-assistant"}
Uuid8s == {"1b9d6bcd"}
AIClientInit(database_path, client_id, uuid8) ==
    LET path == IF database_path = NoArg THEN DefaultDatabasePath ELSE database_path
        id == IF client_id = NoArg THEN None ELSE client_id
    IN  [session_id |-> IF id = None THEN uuid8 ELSE id,
         database_path |-> path]

\* one process of the AI CLI: the group callback constructs the client with
\* AIClient(client_id), the value of --client-id as first positional argument
\* (a failure there is echoed and ends in sys.exit(1)), then the subcommand
\* calls its method on it; a method AIClient does not have raises
\* AttributeError out of the process
DoAiCli(cmd, conn, client_id, uuid8) ==
    LET ai == AIClientInit(client_id, NoArg, uuid8)
    IN  /\ last' = [NoCall EXCEPT
                   !.op = "ai_cli", !.app = "ai", !.cmd = cmd,
                   !.client = client_id,
                   !.session_id = ai.session_id,
                   !.database_path = ai.database_path,
                   !.stored = <<conn>>, !.exited = (conn # "ok"),
                   !.raised = (conn = "ok" /\ AiMethod(cmd) \notin AIClientMethods),
                   !.exit = IF conn = "ok" /\ AiMethod(cmd) \in AIClientMethods
                            THEN 0 ELSE 1]
        /\ UNCHANGED sync_vars
        /\ UNCHANGED chat_vars

\* the demo runs with the extension present or missing: its calls return or
\* raise sqlite3.OperationalError
DemoOutcomes == {"ok", "OperationalError"}
DemoLoadRuns == {l \in LoadRuns : l[Len(l)] \in DemoOutcomes}

\* the two devices of the demo, each a SyncClient on ./data/tutorial.db, as
\* long as no sync is performed (so no row of a remote device arrives)
NextSync ==
    \/ \E c \in Devices, conn \in {"ok", "error"},
          loads \in DemoLoadRuns, o \in SyncRun2, init \in DemoOutcomes :
           DoConstruct(c, FALSE, conn, loads, o, init)
    \/ \E c \in Devices, title \in Titles, eu \in DemoOutcomes,
          ext_id \in ExtIds, fallback_id \in FallbackIds, o \in SyncRun2 :
           DoAddTodo(c, title, eu, ext_id, fallback_id, o)
    \/ \E c \in Devices, todo_id \in ExtIds \cup FallbackIds \cup {UnknownId},
          o \in SyncRun1 \cup SyncRun2 :
           DoCompleteTodo(c, todo_id, o)
    \/ \E c \in Devices, o \in SyncRun1 : DoListTodos(c, o)
    \/ \E c \in Devices, e \in DemoOutcomes : DoClose(c, e)

\* the chat service plays no part here
InitSync == Init /\ has_db = TRUE

SpecSync == InitSync /\ [][NextSync]_vars

\* one SyncClient, constructed by a program or by the cli group callback of
\* a CLI process that then runs one subcommand on it; another device may
\* have pushed a todo to the cloud; and the processes of the AI CLI
CliDevices == {"device-a"}

NextClient ==
    \/ \E c \in CliDevices, cli \in BOOLEAN, conn \in {"ok", "error"},
          loads \in LoadRuns, o \in SyncRun2, init \in ExtOutcomes :
           DoConstruct(c, cli, conn, loads, o, init)
    \/ \E c \in CliDevices, e1 \in ExtOutcomes, e2 \in ExtOutcomes :
           DoSetupCloud(c, e1, e2)
    \/ \E c \in CliDevices, e \in ExtOutcomes, incoming \in Incoming :
           DoSync(c, e, incoming)
    \/ \E c \in CliDevices, title \in Titles, eu \in ExtOutcomes,
          ext_id \in ExtIds, fallback_id \in FallbackIds, o \in SyncRun2 :
           DoAddTodo(c, title, eu, ext_id, fallback_id, o)
    \/ \E c \in CliDevices, todo_id \in TodoIds \cup {UnknownId},
          o \in SyncRun1 \cup SyncRun2 :
           DoCompleteTodo(c, todo_id, o)
    \/ \E c \in CliDevices, o \in SyncRun1 : DoListTodos(c, o)
    \/ \E c \in CliDevices, o \in SyncRun1 : DoShowStatus(c, o)
    \/ \E c \in CliDevices, e \in ExtOutcomes : DoClose(c, e)
    \/ \E cmd \in CliCommands : CliNotStarted("sync", cmd)
    \/ \E cmd \in AiCommands : CliNotStarted("ai", cmd)
    \/ \E cmd \in AiCommands, conn \in {"ok", "error"},
          client_id \in AiClientIds, uuid8 \in Uuid8s :
           DoAiCli(cmd, conn, client_id, uuid8)

SpecClient == InitSync /\ [][NextClient]_vars

\* ---------------------------------------------------- the interactive shell

\* a part as the text Python builds with current_part += char
RECURSIVE Text(_)
Text(part) == IF part = <<>> THEN "" ELSE Head(part) \o Text(Tail(part))

\* cmd_parts as texts
Words(parts) == [k \in 1..Len(parts) |-> Text(parts[k])]

\* ' '.join(words)
RECURSIVE Join(_)
Join(words) ==
    IF words = <<>> THEN ""
    ELSE IF Len(words) = 1 THEN words[1]
    ELSE words[1] \o " " \o Join(Tail(words))

QuitWords == {"quit", "exit", "q"}

\* the if / elif chain of the loop body: what the line makes the shell do
Dispatch(words) ==
    IF words = <<>> THEN "empty"
    ELSE IF words[1] \in QuitWords THEN "break"
    ELSE IF words[1] = "add" /\ Len(words) > 1 THEN "add"
    ELSE IF words[1] = "list" THEN "list"
    ELSE IF words[1] = "complete" /\ Len(words) > 1 THEN "complete"
    ELSE IF words[1] = "sync" THEN "sync"
    ELSE IF words[1] = "status" THEN "status"
    ELSE IF words[1] = "cloud" /\ Len(words) >= 3 THEN "cloud"
    ELSE "unknown"

\* todo['id'][:8], the ID list_todos prints
Prefix8(id) ==
    CASE id = "018f3a5c-7e21-7b44-9c0d-5a1e2f3b4c5d" -> "018f3a5c"
      [] id = "9b1deb4d-3b7d-4bad-9bdd-2b0d7b3dcb6d" -> "9b1deb4d"
      [] id = "1c6f0a52-84e3-4f0b-a7d9-6e2b5c1d0f33" -> "1c6f0a52"
      [] id = "4e8d2c10-55aa-4c3e-8f71-0b9a7d6e5c4f" -> "4e8d2c10"
      [] id = "00000000-0000-4000-8000-000000000000" -> "00000000"

ShownIds == {Prefix8(id) : id \in TodoIds}

\* lines typed at the prompt; a run of ordinary characters is written as one
\* element
ShellLines ==
    { <<>>, <<Space>>, <<"quit">>, <<"exit">>, <<"q">>, <<Quote, "quit", Quote>>,
      <<"quit", Space, "now">>, <<"help">>, <<"add">>,
      <<"add", Space, Quote, "Learn", Space, "SQLite-Sync", Quote>>,
      <<"list">>, <<"complete">>, <<"sync">>, <<"status">>,
      <<"cloud", Space, "url">>, <<"cloud", Space, "url", Space, "key">> }
    \cup { <<"complete", Space, id>> : id \in TodoIds \cup ShownIds }

\* what the line typed makes the shell do
Command(line) == Dispatch(Words(Tokenize(Strip(line))))

\* the record of one pass through the loop body of client c
ShellCall(c, line) ==
    [NoCall EXCEPT !.op = "shell", !.client = c, !.cmd = Command(line),
                   !.line = line, !.cmd_input = Strip(line),
                   !.cmd_parts = Tokenize(Strip(line))]

\* `python sync.py --client-id c [--interactive]` without a subcommand: the
\* cli callback constructs the client, then starts the shell or prints the
\* usage and returns, which ends the process
ShellStart(c, interactive, conn, loads, o, init) ==
    /\ clients[c].phase = "absent"
    /\ cli_client = None
    /\ loads[Len(loads)] # "ok" => init = "OperationalError"
    /\ conn # "ok" => (loads = <<"ok">> /\ o = <<"ok", "ok">> /\ init = "ok")
    /\ ~AllOk(o, 2) => init = "OperationalError"
    /\ loads[Len(loads)] = "Other" => o = <<"ok", "ok">>
    /\ LET r == Construct(tutorial_db.table, conn, loads, o, init)
       IN  /\ tutorial_db' = [tutorial_db EXCEPT !.table = r.table]
           /\ clients' = IF r.constructed /\ interactive
                         THEN [clients EXCEPT ![c] =
                                  [phase |-> "shell", sync_enabled |-> r.sync_enabled,
                                   tx |-> FALSE, view |-> {}]]
                         ELSE clients
           /\ last' = [NoCall EXCEPT
                          !.op = "cli", !.client = c, !.app = "sync",
                          !.cmd = IF interactive THEN "interactive" ELSE "usage",
                          !.ok = r.constructed, !.raised = r.raised,
                          !.exited = r.exited,
                          !.exit = IF r.exited \/ r.raised THEN 1
                                   ELSE IF interactive THEN NoExit ELSE 0,
                          !.calls = r.calls,
                          !.exts = SubSeq(loads \o <<init>>, 1, Len(r.calls)),
                          !.stored = IF conn = "ok" /\ loads[Len(loads)] # "Other"
                                     THEN o ELSE <<>>]
    /\ UNCHANGED cli_client
    /\ UNCHANGED chat_vars

\* the end of the shell: self.close() after the loop, then client.close()
\* again in the finally clause of cli, on a connection already closed
ShellEnd(c, e, call) ==
    /\ ~clients[c].sync_enabled => e = "ok"
    /\ LET r == Close(clients[c], e)
           again == Close(r.client, "Other")
       IN  /\ clients' = [clients EXCEPT ![c] = again.client]
           /\ last' = [call EXCEPT !.closes = 2, !.exit = 0,
                                   !.raised = r.raised \/ again.raised,
                                   !.calls = r.calls \o again.calls,
                                   !.exts = SubSeq(<<e, "Other">>, 1,
                                                   Len(r.calls \o again.calls))]
    /\ UNCHANGED <<tutorial_db, cli_client>>
    /\ UNCHANGED chat_vars

\* quit, exit or q as the first part: break
ShellQuit(c, line, e) ==
    /\ clients[c].phase = "shell"
    /\ Command(line) = "break"
    /\ ShellEnd(c, e, [ShellCall(c, line) EXCEPT !.echo = None])

\* Ctrl-C. At the prompt, click.prompt turns it into click.Abort, a
\* RuntimeError, which `except Exception` reports before the next prompt;
\* anywhere else in the loop body it is KeyboardInterrupt: Goodbye, break
ShellInterrupt(c, at, e) ==
    /\ clients[c].phase = "shell"
    /\ LET call == [NoCall EXCEPT !.op = "shell", !.client = c,
                                  !.cmd = "interrupt", !.message = at]
       IN  IF at = "prompt"
           THEN /\ e = "ok"
                /\ last' = [call EXCEPT !.caught = TRUE, !.echo = "Error"]
                /\ UNCHANGED sync_vars
                /\ UNCHANGED chat_vars
           ELSE ShellEnd(c, e, [call EXCEPT !.echo = "Goodbye!"])

\* an empty line, a command that is not known or lacks its arguments
ShellSkip(c, line) ==
    /\ clients[c].phase = "shell"
    /\ Command(line) \in {"empty", "unknown"}
    /\ last' = [ShellCall(c, line) EXCEPT
                   !.echo = IF Command(line) = "unknown"
                            THEN "Unknown command" ELSE None]
    /\ UNCHANGED sync_vars
    /\ UNCHANGED chat_vars

\* add <title>: add_todo(' '.join(cmd_parts[1:]))
ShellAdd(c, line, eu, ext_id, fallback_id, o) ==
    /\ clients[c].phase = "shell"
    /\ Command(line) = "add"
    /\ Cardinality(Conn(c).todos) < MaxTodos
    /\ Locked(c) => o = <<"error">>
    /\ ~clients[c].sync_enabled => eu = "ok"
    /\ LET title == Join(Tail(Words(Tokenize(Strip(line)))))
           r == AddTodo(Conn(c), clients[c], c, title, eu, ext_id, fallback_id,
                        o, Locked(c))
       IN  /\ r.todo_id \in Ids(Conn(c).todos) => o = <<"error">>
           /\ Store(c, r.k, clients[c])
           /\ last' = [ShellCall(c, line) EXCEPT
                          !.title = title, !.todo_id = r.todo_id, !.ret = r.ret,
                          !.stored = o, !.caught = r.raised, !.calls = r.calls,
                          !.exts = SubSeq(<<eu>>, 1, Len(r.calls)),
                          !.echo = IF r.raised THEN "Error" ELSE "Added"]
    /\ UNCHANGED chat_vars

\* complete <id>: complete_todo(cmd_parts[1])
ShellComplete(c, line, o) ==
    /\ clients[c].phase = "shell"
    /\ Command(line) = "complete"
    /\ Locked(c) => o = <<"error">>
    /\ LET todo_id == Words(Tokenize(Strip(line)))[2]
           r == CompleteTodo(Conn(c), todo_id, o, Locked(c))
       IN  /\ o[1] = "ok" => Len(o) = (IF Matching(Conn(c), todo_id) > 0 THEN 2 ELSE 1)
           /\ Store(c, r.k, clients[c])
           /\ last' = [ShellCall(c, line) EXCEPT
                          !.todo_id = todo_id, !.stored = o, !.found = r.found,
                          !.caught = r.raised,
                          !.echo = IF r.raised THEN "Error" ELSE r.echo]
    /\ UNCHANGED chat_vars

\* list: list_todos(), which prints Prefix8 of each id
ShellList(c, line, o) ==
    /\ clients[c].phase = "shell"
    /\ Command(line) = "list"
    /\ LET r == ListTodos(Conn(c), o)
       IN  /\ Store(c, r.k, clients[c])
           /\ last' = [ShellCall(c, line) EXCEPT
                          !.stored = o, !.listed = r.listed, !.caught = r.raised,
                          !.shown = {Prefix8(t.id) : t \in r.listed},
                          !.echo = IF r.raised THEN "Error" ELSE r.echo]
    /\ UNCHANGED chat_vars

\* sync: sync()
ShellSync(c, line, e, incoming) ==
    /\ clients[c].phase = "shell"
    /\ Command(line) = "sync"
    /\ Cardinality(Conn(c).todos) + Cardinality(incoming) <= MaxTodos
    /\ (~clients[c].sync_enabled \/ e # "ok") => incoming = {}
    /\ ~clients[c].sync_enabled => e = "ok"
    /\ (Locked(c) /\ e = "ok") => NewRows(Conn(c), incoming) = {}
    /\ LET r == Sync(Conn(c), clients[c], e, incoming)
       IN  /\ Store(c, r.k, clients[c])
           /\ last' = [ShellCall(c, line) EXCEPT
                          !.caught = r.raised, !.calls = r.calls,
                          !.exts = SubSeq(<<e>>, 1, Len(r.calls)),
                          !.echo = r.echo]
    /\ UNCHANGED chat_vars

\* status: show_status()
ShellStatus(c, line, o) ==
    /\ clients[c].phase = "shell"
    /\ Command(line) = "status"
    /\ LET r == ShowStatus(Conn(c), o)
       IN  /\ Store(c, r.k, clients[c])
           /\ last' = [ShellCall(c, line) EXCEPT
                          !.stored = o, !.count = r.count, !.caught = r.raised,
                          !.ok = clients[c].sync_enabled,
                          !.echo = IF r.raised THEN "Error" ELSE None]
    /\ UNCHANGED chat_vars

\* cloud <url> <key>: setup_cloud(cmd_parts[1], cmd_parts[2])
ShellCloud(c, line, e1, e2) ==
    /\ clients[c].phase = "shell"
    /\ Command(line) = "cloud"
    /\ ~clients[c].sync_enabled => e1 = "ok"
    /\ (~clients[c].sync_enabled \/ e1 # "ok") => e2 = "ok"
    /\ LET r == SetupCloud(clients[c], e1, e2)
       IN  /\ Store(c, Conn(c), clients[c])
           /\ last' = [ShellCall(c, line) EXCEPT
                          !.ok = r.ret, !.caught = r.raised, !.calls = r.calls,
                          !.exts = SubSeq(<<e1, e2>>, 1, Len(r.calls)),
                          !.echo = r.echo]
    /\ UNCHANGED chat_vars

\* the processes of the sync CLI on one device: with a subcommand, with
\* --interactive, or with neither
NextShell ==
    \/ \E c \in CliDevices, conn \in {"ok", "error"},
          loads \in LoadRuns, o \in SyncRun2, init \in ExtOutcomes :
           DoConstruct(c, TRUE, conn, loads, o, init)
    \/ \E c \in CliDevices, e1 \in ExtOutcomes, e2 \in ExtOutcomes :
           DoSetupCloud(c, e1, e2)
    \/ \E c \in CliDevices, e \in ExtOutcomes, incoming \in Incoming :
           DoSync(c, e, incoming)
    \/ \E c \in CliDevices, title \in Titles, eu \in ExtOutcomes,
          ext_id \in ExtIds, fallback_id \in FallbackIds, o \in SyncRun2 :
           DoAddTodo(c, title, eu, ext_id, fallback_id, o)
    \/ \E c \in CliDevices, todo_id \in TodoIds \cup {UnknownId},
          o \in SyncRun1 \cup SyncRun2 :
           DoCompleteTodo(c, todo_id, o)
    \/ \E c \in CliDevices, o \in SyncRun1 : DoListTodos(c, o)
    \/ \E c \in CliDevices, o \in SyncRun1 : DoShowStatus(c, o)
    \/ \E c \in CliDevices, interactive \in BOOLEAN, conn \in {"ok", "error"},
          loads \in LoadRuns, o \in SyncRun2, init \in ExtOutcomes :
           ShellStart(c, interactive, conn, loads, o, init)
    \/ \E c \in CliDevices, line \in ShellLines, e \in ExtOutcomes :
           ShellQuit(c, line, e)
    \/ \E c \in CliDevices, at \in {"prompt", "command"}, e \in ExtOutcomes :
           ShellInterrupt(c, at, e)
    \/ \E c \in CliDevices, line \in ShellLines : ShellSkip(c, line)
    \/ \E c \in CliDevices, line \in ShellLines, eu \in ExtOutcomes,
          ext_id \in ExtIds, fallback_id \in FallbackIds, o \in SyncRun2 :
           ShellAdd(c, line, eu, ext_id, fallback_id, o)
    \/ \E c \in CliDevices, line \in ShellLines, o \in SyncRun1 \cup SyncRun2 :
           ShellComplete(c, line, o)
    \/ \E c \in CliDevices, line \in ShellLines, o \in SyncRun1 :
           ShellList(c, line, o)
    \/ \E c \in CliDevices, line \in ShellLines, e \in ExtOutcomes,
          incoming \in Incoming :
           ShellSync(c, line, e, incoming)
    \/ \E c \in CliDevices, line \in ShellLines, o \in SyncRun1 :
           ShellStatus(c, line, o)
    \/ \E c \in CliDevices, line \in ShellLines, e1 \in ExtOutcomes,
          e2 \in ExtOutcomes :
           ShellCloud(c, line, e1, e2)

SpecShell == InitSync /\ [][NextShell]_vars

\* the calls of the AI quickstart
ChatOps == {"reopen", "load_model", "complete", "setup_schema", "chat",
            "get_history", "clear_history", "get_message_stats"}

\* the chat service with its AI client, serving one session
NextOneSession ==
    \/ \E conn \in {"ok", "error"} : DoReopen(conn) /\ UNCHANGED stored_turns
    \/ \E p \in ChatModelPaths, e \in LoadOutcomes :
           DoLoadModel(p, e) /\ UNCHANGED stored_turns
    \/ \E m \in Messages, e \in GenOutcomes :
           DoComplete(m, e) /\ UNCHANGED stored_turns
    \/ \E o \in Run2 : DoSetupSchema(o) /\ UNCHANGED stored_turns
    \/ \E m \in Messages, e \in ChatGenOutcomes, o \in Run3 :
           DoChat("session-a", m, e, o) /\ UNCHANGED stored_turns
    \/ \E l \in Limits, o \in Run1 :
           DoGetHistory("session-a", l, o) /\ UNCHANGED stored_turns
    \/ \E o \in Run2 : DoClearHistory("session-a", o) /\ UNCHANGED stored_turns
    \/ \E o \in Run2 : DoGetMessageStats("session-a", o) /\ UNCHANGED stored_turns

\* a run of either quickstart: the program that made the first call makes
\* every later one (the sync quickstart has no ChatService: has_db plays no
\* part in it and is fixed)
NextEither ==
    \/ last.op \in ChatOps \cup {"new"} /\ NextOneSession
    \/ last.op \notin ChatOps /\ has_db /\ NextClient

SpecEither == Init /\ [][NextEither]_vars

\* a chat call counted in stored_turns when its turn was stored in full
CountTurn(session_id, o) ==
    stored_turns' = IF has_db /\ AllOk(o, 3) /\ stored_turns[session_id] # Cleared
                    THEN [stored_turns EXCEPT ![session_id] = @ + 1]
                    ELSE stored_turns

\* the chat service with the record of the turns it stored
NextTurns ==
    \/ \E conn \in {"ok", "error"} : DoReopen(conn) /\ UNCHANGED stored_turns
    \/ \E o \in Run2 : DoSetupSchema(o) /\ UNCHANGED stored_turns
    \/ \E s \in Sessions, m \in Messages, e \in ChatGenOutcomes, o \in Run3 :
           DoChat(s, m, e, o) /\ CountTurn(s, o)
    \/ \E s \in Sessions, o \in Run2 :
           DoClearHistory(s, o)
           /\ stored_turns' = [stored_turns EXCEPT ![s] = Cleared]
    \/ \E s \in Sessions, o \in Run2 :
           DoGetMessageStats(s, o) /\ UNCHANGED stored_turns
    \/ \E s \in Sessions, l \in Limits, o \in Run1 :
           DoGetHistory(s, l, o) /\ UNCHANGED stored_turns

SpecTurns == Init /\ [][NextTurns]_vars

\* the chat service around an AI client whose complete may have been
\* replaced by one that raises
NextPatched ==
    \/ \E p \in ChatModelPaths, e \in LoadOutcomes :
           DoLoadModel(p, e) /\ UNCHANGED stored_turns
    \/ \E o \in Run2 : DoSetupSchema(o) /\ UNCHANGED stored_turns
    \/ \E s \in Sessions, m \in Messages,
          e \in ChatGenOutcomes \cup PatchedOutcomes, o \in Run3 :
           DoChat(s, m, e, o) /\ UNCHANGED stored_turns
    \/ \E s \in Sessions, l \in Limits, o \in Run1 :
           DoGetHistory(s, l, o) /\ UNCHANGED stored_turns

SpecPatched == Init /\ [][NextPatched]_vars

\* the prompt of the interactive shell reads a line, strips it and parses it
DoTokenize(line) ==
    /\ last' = [NoCall EXCEPT !.op = "tokenize", !.line = line,
                              !.cmd_input = Strip(line),
                              !.cmd_parts = Tokenize(Strip(line))]
    /\ UNCHANGED sync_vars
    /\ UNCHANGED chat_vars

\* every line that can be typed, parsed
NextTok == \E line \in Lines : DoTokenize(line)

SpecTok == InitSync /\ [][NextTok]_vars

\* ================================================================ claims

IsChat(l) == l.op = "chat"
Stored(l) == AllOk(l.stored, 3)          \* both INSERTs and the commit succeeded
LastRow(rows) == rows[Len(rows)]
PrevRow(rows) == rows[Len(rows) - 1]

\* C1: a chat(session_id, message) call whose storage succeeds adds exactly
\* two rows to chat_history: first a 'user' row with the message, then an
\* 'assistant' row with the returned response; both carry the session id and
\* the same model_used, the client's current_model_path at that turn.
C1_ChatAddsUserThenAssistant ==
    [][ (IsChat(last') /\ Stored(last')) =>
          LET old == db.chat_history
              new == db'.chat_history
              u == new[Len(old) + 1]
              a == new[Len(old) + 2]
          IN  /\ Len(new) = Len(old) + 2
              /\ SubSeq(new, 1, Len(old)) = old
              /\ u.role = "user" /\ u.message = last'.message
              /\ a.role = "assistant" /\ a.message = last'.ret
              /\ u.session_id = last'.session_id
              /\ a.session_id = last'.session_id
              /\ u.model_used = current_model_path
              /\ a.model_used = current_model_path
              /\ u.id < a.id
              /\ \A i \in 1..Len(old) : old[i].id < u.id ]_vars

C1_Witness ==
    /\ IsChat(last) /\ Stored(last)
    /\ current_model_path \in ExistingPaths
    /\ Len(db.chat_history) = 3
    /\ PrevRow(db.chat_history).role = "user"
    /\ LastRow(db.chat_history).role = "assistant"
    /\ LastRow(db.chat_history).message = "Hi there!"
    /\ LastRow(db.chat_history).model_used = current_model_path

\* every user row of the session is directly followed, within the session,
\* by an assistant row, and every assistant row directly follows a user row
Paired(rows) ==
    /\ Len(rows) % 2 = 0
    /\ \A i \in 1..Len(rows) :
          rows[i].role = (IF i % 2 = 1 THEN "user" ELSE "assistant")

\* C2: after any sequence of chat, get_history, get_message_stats and
\* clear_history calls in which storage statements may fail, the rows that
\* get_history / get_message_stats see for a session are complete
\* user/assistant pairs (total = 2 x user), never a user row alone.
C2_TurnsArePairs ==
    \A s \in Sessions :
        /\ CountAll(db.chat_history, s) = 2 * CountUser(db.chat_history, s)
        /\ Paired(OfSession(db.chat_history, s))

\* C3: a failure while persisting a chat turn is swallowed: chat does not
\* raise and returns the text that complete produced.
C3_StorageFailureSwallowed ==
    (IsChat(last) /\ has_db /\ ~Stored(last)) =>
        /\ ~last.raised
        /\ last.ret = last.response

C3_Witness ==
    /\ IsChat(last) /\ has_db
    /\ last.stored = <<"ok", "error">>
    /\ ~last.raised
    /\ last.ret = "Hi there!"

\* C4: while no model is loaded, complete, and a chat turn that uses it,
\* returns the fixed text "No model loaded. Please load a model first." and
\* makes no extension call.
C4_NoModelSentinel ==
    (last.op \in {"complete", "chat"} /\ current_model_path = None) =>
        /\ last.ret = "No model loaded. Please load a model first."
        /\ last.calls = <<>>
        /\ ~last.raised

C4_Witness ==
    /\ IsChat(last) /\ Stored(last)
    /\ current_model_path = None
    /\ last.ret = SentinelNoModel
    /\ LastRow(db.chat_history).message = SentinelNoModel

IsLoad(l) == l.op = "load_model"

\* C5 as stated: load_model with a path that does not exist returns False,
\* makes no extension call and leaves current_model_path unset, whatever the
\* state of the client before the call.
C5_MissingPathLeavesUnset ==
    (IsLoad(last) /\ ~Exists(last.model_path)) =>
        /\ ~last.ok
        /\ last.calls = <<>>
        /\ current_model_path = None

\* C5 (amended): load_model with a path that does not exist returns False,
\* makes no extension call and leaves current_model_path as it was before
\* the call: unset on a fresh client, the loaded path after an earlier load.
C5_MissingPathLeavesUnchanged ==
    [][ (IsLoad(last') /\ ~Exists(last'.model_path)) =>
          /\ ~last'.ok
          /\ ~last'.raised
          /\ last'.calls = <<>>
          /\ current_model_path' = current_model_path ]_vars

C5_Witness ==
    /\ IsLoad(last) /\ ~Exists(last.model_path)
    /\ ~last.ok
    /\ current_model_path \in ExistingPaths

\* C6: when llm_model_load raises for an existing file, load_model returns
\* False, propagates nothing and current_model_path keeps the value it had
\* before the call (None, or the path loaded earlier).
C6_FailedLoadKeepsModel ==
    [][ (IsLoad(last') /\ Exists(last'.model_path) /\ last'.ext.kind = "raise") =>
          /\ ~last'.ok
          /\ ~last'.raised
          /\ current_model_path' = current_model_path ]_vars

C6_Witness ==
    /\ IsLoad(last) /\ Exists(last.model_path) /\ last.ext.kind = "raise"
    /\ ~last.ok
    /\ current_model_path \in ExistingPaths \ {last.model_path}

\* C7: load_model(p) for an existing file whose extension call succeeds
\* makes exactly one llm_model_load(p) call, returns True and sets
\* current_model_path to p; in every state current_model_path is unset or
\* the path of the most recent successful load_model.
C7_SuccessfulLoadSetsModel ==
    /\ [](current_model_path = loaded)
    /\ [][ (IsLoad(last') /\ Exists(last'.model_path) /\ last'.ext.kind = "ok") =>
             /\ last'.calls = <<Call("llm_model_load", last'.model_path)>>
             /\ last'.ok
             /\ current_model_path' = last'.model_path ]_vars

C7_Witness ==
    /\ IsLoad(last) /\ last.ok
    /\ last.model_path = "model2.gguf"
    /\ current_model_path = "model2.gguf"
    /\ loaded = "model2.gguf"
    /\ last.calls = <<Call("llm_model_load", "model2.gguf")>>

IsEmptyResult(e) == e.kind = "norow" \/ (e.kind = "row" /\ e.val \in {None, ""})

\* C8: with a model loaded, complete(prompt) makes one
\* llm_text_generate(prompt) call and never raises: it returns the generated
\* text when the extension returns a non-empty value, "Sorry, I couldn't
\* generate a response." when it returns no row or an empty value, and
\* "Error generating response: <error message>" when the call raises;
\* current_model_path is unchanged.
C8_CompleteWithModel ==
    /\ []( (last.op = "complete" /\ current_model_path # None) =>
             /\ last.calls = <<Call("llm_text_generate", last.message)>>
             /\ ~last.raised
             /\ (last.ext.kind = "row" /\ ~IsEmptyResult(last.ext)
                    => last.ret = last.ext.val)
             /\ (IsEmptyResult(last.ext)
                    => last.ret = "Sorry, I couldn't generate a response.")
             /\ (last.ext.kind = "raise"
                    => last.ret = "Error generating response: " \o last.ext.val) )
    /\ [][ last'.op = "complete" => current_model_path' = current_model_path ]_vars

C8_Witness ==
    /\ last.op = "complete"
    /\ current_model_path \in ExistingPaths
    /\ last.ext = [kind |-> "row", val |-> ""]
    /\ last.ret = SentinelEmpty

IsHistory(l) == l.op = "get_history"

InView(r) == \E i \in 1..Len(db.chat_history) : db.chat_history[i] = r
InCursor(r, l) == \E i \in 1..Len(l.cursor) : l.cursor[i] = r

\* what holds of every get_history result: the messages returned are rows of
\* the session, newest first by id, and no row of the session left out is
\* newer than a row returned
NewestFirst(l) ==
    /\ Len(l.history) = Len(l.cursor)
    /\ \A i \in 1..Len(l.cursor) :
          /\ InView(l.cursor[i])
          /\ l.cursor[i].session_id = l.session_id
          /\ l.history[i].role = l.cursor[i].role
          /\ l.history[i].message = l.cursor[i].message
    /\ \A i, j \in 1..Len(l.cursor) : i < j => l.cursor[i].id > l.cursor[j].id
    /\ \A k \in 1..Len(db.chat_history) :
          LET r == db.chat_history[k]
          IN  (r.session_id = l.session_id /\ ~InCursor(r, l)) =>
                  \A i \in 1..Len(l.cursor) : r.id < l.cursor[i].id

\* C9 as stated: for every session and every value of limit,
\* get_history(session_id, limit) returns at most limit messages, all of
\* that session, the most recently inserted ones, newest first.
C9_AtMostLimitForEveryLimit ==
    IsHistory(last) =>
        /\ Len(last.history) <= last.limit
        /\ NewestFirst(last)

\* C9 (amended): for every session and every limit >= 0,
\* get_history(session_id, limit) returns at most limit messages, all of
\* that session, the most recently inserted ones in strictly descending id
\* order: min(limit, messages of the session) of them when the query
\* succeeds, none when it fails.  A negative limit is no limit: the query
\* returns every message of the session, newest first.
C9_HistoryNewestFirstWithinLimit ==
    IsHistory(last) =>
        LET n == CountAll(db.chat_history, last.session_id)
            queried == has_db /\ AllOk(last.stored, 1)
        IN  /\ NewestFirst(last)
            /\ last.limit >= 0 => Len(last.history) <= last.limit
            /\ (queried /\ last.limit >= 0) => Len(last.history) = Min(last.limit, n)
            /\ (queried /\ last.limit < 0) => Len(last.history) = n
            /\ ~queried => last.history = <<>>

C9_Witness ==
    /\ IsHistory(last) /\ AllOk(last.stored, 1)
    /\ last.limit = 2
    /\ CountAll(db.chat_history, last.session_id) = 3
    /\ Len(db.chat_history) = 3
    /\ Len(last.history) = 2
    /\ last.history[1].role = "assistant"
    /\ last.history[2].role = "user"

\* C10: a chat or clear_history call for session A never adds, removes or
\* changes a row stored under a different session B: what get_history(B) and
\* get_message_stats(B) read is the same before and after the call.
C10_SessionIsolation ==
    [][ \A a, b \in Sessions :
          (last'.op \in {"chat", "clear_history"} /\ last'.session_id = a /\ a # b) =>
              OfSession(db'.chat_history, b) = OfSession(db.chat_history, b) ]_vars

IsStats(l) == l.op = "get_message_stats"
Counted(l) == AllOk(l.stored, 2)         \* both COUNT(*) queries succeeded

\* C11: for every session, get_message_stats(session_id) returns the pair
\* (number of rows stored under the session, number of those with role
\* 'user'), and after n successfully stored chat turns and no clear_history
\* of the session that pair is (2n, n).
C11_StatsAreRowCounts ==
    (IsStats(last) /\ Counted(last)) =>
        LET s == last.session_id
        IN  /\ last.total = CountAll(db.chat_history, s)
            /\ last.user = CountUser(db.chat_history, s)
            /\ stored_turns[s] # Cleared =>
                   /\ last.total = 2 * stored_turns[s]
                   /\ last.user = stored_turns[s]

IsClear(l) == l.op = "clear_history"
Cleaned(l) == AllOk(l.stored, 2)         \* the DELETE and the commit succeeded

IsReopen(l) == l.op = "reopen" /\ ~l.raised

IsList(l) == l.op = "list_todos" /\ ~l.raised
IsAdd(l) == l.op = "add_todo"
Added(l) == IsAdd(l) /\ AllOk(l.stored, 2)     \* the INSERT and the commit succeeded

\* the rows list_todos of device d would show
Seen(d) == Conn(d).todos

\* C14: the two SyncClient instances of the demo do not interact through
\* local state: as long as no sync is performed, a list_todos on a device
\* that added nothing itself returns no todos (device B after the add_todo
\* calls on device A), and an add_todo or complete_todo on one device never
\* changes what the other device lists.
C14_DevicesDoNotShareRows ==
    /\ []((IsList(last) /\ \A r \in last.listed : r.device # last.client)
             => last.listed = {})
    /\ [][ last'.op \in {"add_todo", "complete_todo"} =>
              \A d \in Devices \ {last'.client} :
                  clients[d].phase = "open" => Seen(d)' = Seen(d) ]_vars

\* every row some connection sees or the file holds
AllRows == tutorial_db.todos \cup UNION {clients[d].view : d \in Devices}

\* C15: a todo row created by add_todo on the client with client_id c is
\* stored with device = c, completed = 0 and the given title; no operation
\* changes the title or the device of a row with a given id; so list_todos,
\* on whichever client, shows a todo with the device it was created on.
C15_RowsKeepOrigin ==
    [][ /\ \A c \in Devices :
              /\ (Added(last') /\ last'.client = c) =>
                    /\ Seen(c)' = Seen(c) \cup {[id |-> last'.ret, title |-> last'.title,
                                                 completed |-> 0, device |-> c]}
                    /\ last'.ret \notin Ids(Seen(c))
                    /\ tutorial_db'.todos = Seen(c)'
              /\ (IsList(last') /\ last'.client = c) => last'.listed = Seen(c)
        /\ \A r \in AllRows : \A q \in AllRows' :
              q.id = r.id => (q.title = r.title /\ q.device = r.device) ]_vars

C15_Witness ==
    /\ IsList(last) /\ last.client = "device-b"
    /\ \E r \in last.listed :
          r.device = "device-a" /\ r.completed = 1 /\ r.title \in Titles
    /\ \E r \in last.listed : r.device = "device-b" /\ r.completed = 0

\* a CLI subcommand that ran on a started client
IsCliRun(l) ==
    l.cmd \in CliCommands \cup AiCommands /\ l.op \notin {"subcommand", "construct"}

NetworkSyncs(l) ==
    Cardinality({i \in 1..Len(l.calls) : l.calls[i] = "cloudsync_network_sync"})

\* C17: synchronization happens only when explicitly invoked: the extension
\* function cloudsync_network_sync is called only inside SyncClient.sync(),
\* at most once per invocation and only when sync_enabled is true;
\* construction, setup_cloud, add_todo, complete_todo, list_todos,
\* show_status and close never call it.
C17_SyncOnlyWhenInvoked ==
    [][ /\ NetworkSyncs(last') <= 1
        /\ NetworkSyncs(last') = 1 =>
              /\ last'.op = "sync"
              /\ \E c \in Devices : last'.client = c /\ clients[c].sync_enabled
        /\ (last'.op = "sync"
              /\ \E c \in Devices : last'.client = c /\ clients[c].sync_enabled)
              => last'.calls = <<"cloudsync_network_sync">> ]_vars

C17_Witness ==
    /\ last.op = "sync"
    /\ last.calls = <<"cloudsync_network_sync">>
    /\ last.echo = "Received changes"
    /\ \E r \in tutorial_db.todos : r.device = "device-c"

IsConstruct(l) == l.op = "construct"

\* a construction whose connection and schema statements worked and in
\* which no candidate extension loaded or cloudsync_init failed
ExtensionMissing(l) ==
    /\ IsConstruct(l) /\ ~l.exited
    /\ l.stored \in {<<>>, <<"ok", "ok">>}
    /\ l.exts[Len(l.exts)] # "ok"

\* some call into the extension made by the call l raised
ExtensionFailed(l) == \E i \in 1..Len(l.exts) : l.exts[i] # "ok"

\* C18: degraded (local-only) mode: if no candidate extension can be
\* loaded, or cloudsync_init fails, construction of SyncClient still
\* completes with sync_enabled = false and the todos table present;
\* sync_enabled never changes after construction; while it is false
\* setup_cloud returns False and sync returns without calling any extension
\* function, and add_todo, complete_todo, list_todos and show_status keep
\* working on the local table with ids from the fallback generator.
C18_DegradedMode ==
    /\ [](ExtensionMissing(last) =>
             /\ last.ok /\ ~last.raised
             /\ clients[last.client].phase = "open"
             /\ ~clients[last.client].sync_enabled
             /\ tutorial_db.table)
    /\ [][ \A c \in Devices :
           /\ (clients[c].phase = "open" /\ clients'[c].phase = "open") =>
                 clients'[c].sync_enabled = clients[c].sync_enabled
           /\ (last'.client = c /\ clients[c].phase = "open"
                 /\ ~clients[c].sync_enabled) =>
                 /\ last'.op = "setup_cloud" => (~last'.ok /\ last'.calls = <<>>)
                 /\ last'.op = "sync" => last'.calls = <<>>
                 /\ last'.op \in {"list_todos", "show_status", "complete_todo"} =>
                       (AllOk(last'.stored, Len(last'.stored)) => ~last'.raised)
                 /\ Added(last') =>
                       /\ last'.calls = <<>>
                       /\ last'.ret \in FallbackIds
                       /\ last'.ret \in Ids(tutorial_db'.todos) ]_vars

\* C19: every call to a native-extension function made by SyncClient
\* (load_extension, cloudsync_init, cloudsync_network_init,
\* cloudsync_network_set_apikey, cloudsync_network_sync, cloudsync_uuid,
\* cloudsync_terminate) is wrapped in broad exception handling: whatever
\* kind of error the call raises, it is not propagated to the caller, and
\* the failed operation leaves the rows of todos and the sync_enabled flag
\* unchanged.
C19_ExtensionErrorsAbsorbed ==
    [][ (ExtensionFailed(last')
           /\ AllOk(last'.stored, Len(last'.stored))) =>
          /\ ~last'.raised
          /\ last'.op \in {"setup_cloud", "sync", "close", "construct"} =>
                /\ tutorial_db'.todos = tutorial_db.todos
                /\ \A c \in Devices :
                      (clients[c].phase = "open" /\ clients'[c].phase # "absent")
                          => clients'[c].sync_enabled = clients[c].sync_enabled ]_vars

\* the calls in which every failure ends in a result or a printed message
Absorbing == {"load_model", "complete", "chat", "get_history", "clear_history",
              "get_message_stats", "setup_cloud", "sync", "close"}

\* some database statement of the call l failed
StatementFailed(l) == \E i \in 1..Len(l.stored) : l.stored[i] # "ok"

\* C20 as claimed: nothing is fatal: no operation of SyncClient, AIClient,
\* ChatService or DatabaseManager (construction, schema setup and add_todo
\* included), under any failure of the database or the extension, terminates
\* the process or propagates an exception.
C20_NothingIsFatal == ~last.raised /\ ~last.exited

\* C20, amended: failures are absorbed by load_model, complete, chat,
\* get_history, clear_history, get_message_stats, setup_cloud, sync and
\* close, which never raise nor end the process; they are fatal elsewhere:
\* a failed connection ends the process with status 1 in SyncClient and
\* raises in DatabaseManager, and a failed statement raises from
\* ChatService.setup_schema, from the construction of SyncClient and from
\* add_todo, complete_todo, list_todos and show_status.
C20_FatalOnlyOutsideAbsorbing ==
    /\ last.op \in Absorbing => (~last.raised /\ ~last.exited)
    /\ last.op # "ai_cli"
          => (last.exited <=> (IsConstruct(last) /\ last.calls = <<>> /\ ~last.raised))
    /\ last.exited => last.exit = 1
    /\ (last.op \in {"reopen", "setup_schema", "add_todo", "complete_todo",
                     "list_todos", "show_status"})
          => (last.raised <=> StatementFailed(last))
    /\ (IsConstruct(last) /\ StatementFailed(last)) => last.raised

C20_Witness ==
    /\ last.op = "sync"
    /\ last.exts = <<"Other">>
    /\ last.echo = "Sync failed"
    /\ ~last.raised /\ ~last.exited

\* the characters of all the parts, in order
RECURSIVE Flatten(_)
Flatten(parts) == IF parts = <<>> THEN <<>> ELSE Head(parts) \o Flatten(Tail(parts))

\* position i of line lies inside double quotes: an odd number of quote
\* characters stands before it
InQuotes(line, i) == Cardinality({j \in 1..(i - 1) : line[j] = Quote}) % 2 = 1

\* line with the quote characters and the spaces outside quotes removed
RECURSIVE KeptFrom(_, _)
KeptFrom(line, i) ==
    IF i > Len(line) THEN <<>>
    ELSE IF line[i] = Quote \/ (line[i] = Space /\ ~InQuotes(line, i))
    THEN KeptFrom(line, i + 1)
    ELSE <<line[i]>> \o KeptFrom(line, i + 1)

Kept(line) == KeptFrom(line, 1)

\* the words of line: the maximal runs of characters between spaces that are
\* outside quotes
Boundaries(line) ==
    Cardinality({i \in 1..Len(line) : line[i] = Space /\ ~InQuotes(line, i)})

\* what the claim says of the parts of a line
WellSplit(parts, line) ==
    /\ \A k \in 1..Len(parts) :
          /\ parts[k] # <<>>
          /\ \A i \in 1..Len(parts[k]) : parts[k][i] # Quote
    /\ Flatten(parts) = Kept(line)
    /\ Len(parts) <= Boundaries(line) + 1
    /\ Cardinality({i \in 1..Len(Flatten(parts)) : Flatten(parts)[i] = Space})
          = Cardinality({i \in 1..Len(line) : line[i] = Space /\ InQuotes(line, i)})

IsShell(l) == l.op = "shell"

\* the pass was the last one: the loop ended and the process with it
LoopEnded(l) == l.exit # NoExit

\* the first part of the line is quit, exit or q
QuitTyped(l) == l.cmd_parts # <<>> /\ Text(l.cmd_parts[1]) \in QuitWords

\* C21: the interactive shell loop ends exactly when the first token of the
\* input line is quit, exit or q, or when an interrupt occurs; any other
\* input (empty, unknown, too few arguments, a command that raises) is
\* handled and followed by another prompt; when the loop ends the client is
\* closed.
C21_ShellEndsOnQuitOrInterrupt ==
    IsShell(last) =>
        /\ LoopEnded(last) <=> (QuitTyped(last) \/ last.cmd = "interrupt")
        /\ ~last.raised
        /\ LoopEnded(last) => clients[last.client].phase = "closed"
        /\ ~LoopEnded(last) => clients[last.client].phase = "shell"

\* C28: a todo can be completed from the interactive shell with the ID that
\* list_todos prints for it: for every stored todo, `complete <ID shown>`
\* (the statements succeeding) marks exactly that todo completed.
C28_CompleteWithShownId ==
    [][ \A c \in CliDevices : \A t \in Seen(c) :
          ( /\ IsShell(last') /\ last'.client = c /\ last'.cmd = "complete"
            /\ last'.todo_id = Prefix8(t.id)
            /\ ~last'.caught )
          => /\ [t EXCEPT !.completed = 1] \in Seen(c)'
             /\ last'.found ]_vars

\* a CLI process that constructed its SyncClient has ended
ProcessEnded(l) ==
    /\ l.client # None
    /\ l.exit # NoExit
    /\ l.op \in {"construct", "cli"} => l.ok

\* C30: every SyncClient created by the sync CLI is closed before the
\* program ends, on every path (interactive mode, a subcommand, no
\* subcommand, an error or interrupt): close() was called on it, and a
\* second close() on the closed client raises nothing.
C30_ClientsAreClosed ==
    ProcessEnded(last) => (last.closes >= 1 /\ ~last.raised /\ last.exit = 0)

\* C22: schema creation is idempotent: run on a database that already holds
\* the table and rows (ChatService.setup_schema called again, another
\* SyncClient constructed on the file), it does not fail when its statements
\* run, and it leaves every existing row as it was.
C22_SchemaSetupIsIdempotent ==
    [][ /\ (last'.op = "setup_schema" /\ has_db /\ db.table /\ AllOk(last'.stored, 2))
           => /\ ~last'.raised
              /\ db'.table
              /\ db'.chat_history = db.chat_history
        /\ (IsConstruct(last') /\ tutorial_db.table)
           => /\ tutorial_db' = tutorial_db
              /\ \A d \in Devices \ {last'.client} : clients'[d] = clients[d]
              /\ (/\ AllOk(last'.stored, 2)
                  /\ \A i \in 1..Len(last'.exts) : last'.exts[i] # "Other")
                    => (last'.ok /\ ~last'.raised /\ ~last'.exited) ]_vars

C22_Witness ==
    /\ last.op = "setup_schema"
    /\ ~last.raised
    /\ Len(db.chat_history) >= 2
    /\ db.disk.chat_history = db.chat_history

\* C23: the AIClient made by the AI CLI has the value of --client-id as its
\* session_id, and the default database path.
C23_ClientIdIsSessionId ==
    (last.op = "ai_cli" /\ ~last.exited)
        => /\ last.session_id = last.client
           /\ last.database_path = DefaultDatabasePath

LocalOps == {"add_todo", "complete_todo", "list_todos", "show_status",
             "setup_cloud", "sync"}

\* every row of before is in after, with the same id, title and device, and
\* completed there if it was completed before
Kept24(before, after) ==
    \A r \in before : \E q \in after :
        /\ q.id = r.id /\ q.title = r.title /\ q.device = r.device
        /\ q.completed >= r.completed

\* C24: under add_todo, complete_todo, list_todos, show_status, setup_cloud
\* and sync no todo is deleted and no completed todo becomes uncompleted,
\* in the file and in what the calling connection sees (for a CLI
\* subcommand, whose connection ends with the process, what the file holds
\* afterwards); an add_todo that returns adds exactly the one id it returns,
\* and the other operations, a sync that receives rows apart, add none.
C24_TodosOnlyGrow ==
    [][ \A c \in Devices :
          (last'.op \in LocalOps /\ last'.client = c) =>
            LET before == Conn(c).todos
                after == IF clients'[c].phase = "open" THEN Conn(c)'.todos
                         ELSE tutorial_db'.todos
            IN  /\ Kept24(tutorial_db.todos, tutorial_db'.todos)
                /\ Kept24(before, after)
                /\ (last'.op = "add_todo" /\ ~last'.raised)
                      => /\ last'.ret \notin Ids(before)
                         /\ Ids(after) = Ids(before) \cup {last'.ret}
                         /\ Cardinality(after) = Cardinality(before) + 1
                /\ (last'.op = "add_todo" /\ last'.raised /\ clients'[c].phase = "open")
                      => Ids(after) \subseteq Ids(before) \cup {last'.todo_id}
                /\ (last'.op # "add_todo" /\ last'.echo # "Received changes")
                      => Ids(after) = Ids(before) ]_vars

C24_Witness ==
    /\ last.op = "complete_todo"
    /\ last.found /\ ~last.raised
    /\ Cardinality(tutorial_db.todos) = 2
    /\ \E r \in tutorial_db.todos : r.id = last.todo_id /\ r.completed = 1
    /\ \E r \in tutorial_db.todos : r.completed = 0

DistinctIds(rows) == Cardinality(Ids(rows)) = Cardinality(rows)

\* C26: the ids of the rows of todos are pairwise distinct, in the file and
\* in what each connection sees; an add_todo that returns has inserted one
\* row, with the title and the device of the call, and returns its id; the
\* id is the extension's (cloudsync_uuid) when sync is enabled and that call
\* returned, and uuid.uuid4()'s otherwise; an add_todo whose id is already
\* in the table raises and leaves the table as it was.
C26_IdsAreDistinct ==
    /\ [](/\ DistinctIds(tutorial_db.todos)
          /\ \A c \in Devices : DistinctIds(Conn(c).todos))
    /\ [][ \A c \in Devices :
             (last'.op = "add_todo" /\ last'.client = c) =>
               LET before == Conn(c).todos
                   after == IF clients'[c].phase = "open" THEN Conn(c)'.todos
                            ELSE tutorial_db'.todos
               IN  /\ last'.todo_id \in
                         (IF clients[c].sync_enabled /\ last'.exts = <<"ok">>
                          THEN ExtIds ELSE FallbackIds)
                   /\ (clients[c].sync_enabled <=> last'.calls = <<"cloudsync_uuid">>)
                   /\ ~last'.raised
                         => /\ last'.ret = last'.todo_id
                            /\ after = before \cup {Todo(last'.ret, last'.title, c)}
                            /\ last'.ret \notin Ids(before)
                   /\ last'.todo_id \in Ids(before)
                         => /\ last'.raised
                            /\ last'.ret = None
                            /\ tutorial_db'.todos = tutorial_db.todos
                            /\ clients'[c].phase = "open" => after = before ]_vars

C26_Witness ==
    /\ last.op = "add_todo"
    /\ last.raised
    /\ last.exts = <<"ok">>
    /\ last.todo_id \in Ids(tutorial_db.todos)
    /\ Cardinality(tutorial_db.todos) = 1

\* rows with the row of id todo_id, if any, marked completed
Done27(rows, todo_id) ==
    {IF r.id = todo_id THEN [r EXCEPT !.completed = 1] ELSE r : r \in rows}

\* the statements of a complete_todo(todo_id) on connection k, all succeeding
OkRun27(k, todo_id) == IF Matching(k, todo_id) > 0 THEN <<"ok", "ok">> ELSE <<"ok">>

\* C27: complete_todo(id) marks the row whose id is id as completed and
\* changes nothing else, in the table and in the other connections; when no
\* row has that id the table is unchanged and 'Todo not found' is reported;
\* a call whose statement fails leaves the file unchanged; and calling it a
\* second time leaves the table the first call left.
C27_CompleteTodoFrame ==
    /\ [](\A c \in Devices, todo_id \in TodoIds \cup {UnknownId} :
            clients[c].phase = "open" =>
              LET once == CompleteTodo(Conn(c), todo_id,
                                       OkRun27(Conn(c), todo_id), FALSE).k
                  twice == CompleteTodo(once, todo_id, OkRun27(once, todo_id), FALSE).k
              IN  twice = once)
    /\ [][ \A c \in Devices :
             (last'.op = "complete_todo" /\ last'.client = c) =>
               LET before == Conn(c).todos
                   after == IF clients'[c].phase = "open" THEN Conn(c)'.todos
                            ELSE tutorial_db'.todos
                   id == last'.todo_id
               IN  /\ \A d \in Devices \ {c} : clients'[d] = clients[d]
                   /\ (~last'.raised /\ id \in Ids(before))
                         => /\ after = Done27(before, id)
                            /\ tutorial_db'.todos = after
                            /\ last'.found
                            /\ last'.echo = "Todo completed!"
                   /\ (~last'.raised /\ id \notin Ids(before))
                         => /\ after = before
                            /\ tutorial_db'.todos = tutorial_db.todos
                            /\ ~last'.found
                            /\ last'.echo = "Todo not found"
                   /\ last'.raised
                         => /\ tutorial_db'.todos = tutorial_db.todos
                            /\ after \in {before, Done27(before, id)}
                            /\ last'.echo = None ]_vars

C27_Witness ==
    /\ last.op = "complete_todo"
    /\ last.found /\ ~last.raised
    /\ last.client = "device-b"
    /\ \E r \in tutorial_db.todos : r.id = last.todo_id /\ r.completed = 1
    /\ \E r \in tutorial_db.todos :
          r.id # last.todo_id /\ r.completed = 0 /\ r.device = "device-a"

\* the text chat produces for a message: the sentinel when no model is
\* loaded, the text or the error string of the generation otherwise, and the
\* error string made of the exception's message when complete raised
Produced29(l, cur) ==
    IF l.ext \in PatchedOutcomes THEN ErrorPrefix \o l.ext.val
    ELSE IF ~Truthy(cur) THEN SentinelNoModel
    ELSE l.response

\* C29: a chat call whose storage statements run stores the user message
\* and the text it produced (sentinel, error string of the generation, or
\* "Error generating response: <message>" when complete raised) as a
\* user / assistant pair under the session, with model_used equal to
\* current_model_path (None when no model is loaded), and returns that text.
C29_TurnStoredWhateverText ==
    [][ (last'.op = "chat" /\ has_db /\ AllOk(last'.stored, 3)) =>
          /\ last'.response = Produced29(last', current_model_path)
          /\ last'.response \in {SentinelNoModel, "Hi there!",
                                 ErrorPrefix \o "AI generation failed",
                                 ErrorPrefix \o "AI failed"}
          /\ last'.ret = last'.response
          /\ ~last'.raised
          /\ db'.chat_history = db.chat_history \o
                <<Row(db.seq + 1, "user", last'.message, current_model_path,
                      last'.session_id),
                  Row(db.seq + 2, "assistant", last'.response, current_model_path,
                      last'.session_id)>>
          /\ db'.disk.chat_history = db'.chat_history ]_vars

C29_Witness ==
    /\ last.op = "chat"
    /\ last.ext \in PatchedOutcomes
    /\ AllOk(last.stored, 3)
    /\ Len(db.disk.chat_history) = 2
    /\ db.disk.chat_history[2].message = "Error generating response: AI failed"
    /\ db.disk.chat_history[2].model_used = "model1.gguf"

====
